---- MODULE Spec2Model ----
(***************************************************************************)
(* A model of autokey's input pipeline and trigger matching:               *)
(*   - src/src/lib/iomediator.py : IoMediator (modifier tracking, the      *)
(*     keypress queue and its consumer thread, the listener registry,      *)
(*     the outbound send operations), KeyGrabber, KeyRecorder              *)
(*   - src/trunk/src/lib/model.py : AbstractAbbreviation matching          *)
(* Each subsystem has its own specifications (SpecDispatch, SpecRegistry,  *)
(* SpecMods; SpecSend, SpecLock; SpecAbbr); the variables of the other     *)
(* subsystems stay at their initial values.                                *)
(***************************************************************************)
EXTENDS Integers, Sequences, FiniteSets, TLC

(***************************************************************************)
(* Bounds of the model                                                     *)
(***************************************************************************)
\* keypress events enqueued in one behaviour
MaxEvents == 3
\* modifier notifications in one behaviour of SpecDispatch
MaxNotifs == 2
\* modifier notifications in one behaviour of SpecMods
MaxModNotifs == 2
\* keypress events enqueued in one behaviour of SpecMods
MaxModEvents == 1
\* keypress events enqueued in one behaviour of SpecRegistry
MaxRegEvents == 1
\* modifier notifications in one behaviour of SpecRegistry
MaxRegNotifs == 1
\* length of the listener registry
MaxListeners == 3
\* mouse clicks in one behaviour
MaxClicks == 1
\* pieces of a string sent in SpecSend
MaxPieces == 3
\* modifier notifications in one behaviour of SpecSend
MaxSendNotifs == 2
\* modifier notifications in one behaviour of SpecLock
MaxLockNotifs == 1
\* largest count passed to send_left, send_right, send_up and send_backspace
MaxCount == 1
\* length of an abbreviation
MaxAbbrLen == 2
\* length of the input buffer
MaxBufLen == 4
\* calls of build_phrase / process_buffer in one behaviour of SpecTree
MaxBuilds == 2
\* length of the buffer given to build_phrase / process_buffer in SpecBuild
MaxBuildBufLen == 3
\* longest modifiers list a hotkey grows to through copy_hotkey
MaxHkLen == 2
\* pieces of the expansion string handed to parsePositionTokens
MaxCursorPieces == 3

(***************************************************************************)
(* Key names (class Key) and the modifier lists                            *)
(***************************************************************************)
CONTROL == "<ctrl>"
ALT == "<alt>"
ALT_GR == "<alt_gr>"
SHIFT == "<shift>"
SUPER == "<super>"
CAPSLOCK == "<capslock>"
NUMLOCK == "<numlock>"

MODIFIERS == <<CONTROL, ALT, ALT_GR, SHIFT, SUPER, CAPSLOCK, NUMLOCK>>
NON_PRINTING_MODIFIERS == <<CONTROL, ALT, SUPER>>

Range(s) == {s[i] : i \in DOMAIN s}
ModSet == Range(MODIFIERS)
ToggleMods == {CAPSLOCK, NUMLOCK}

\* Position of a key name in Python's string order (what list.sort() uses).
StrRank(m) ==
    CASE m = ALT -> 1
      [] m = ALT_GR -> 2
      [] m = CAPSLOCK -> 3
      [] m = CONTROL -> 4
      [] m = NUMLOCK -> 5
      [] m = SHIFT -> 6
      [] m = SUPER -> 7

RECURSIVE InsertSorted(_, _)
InsertSorted(x, s) ==
    IF s = <<>> THEN <<x>>
    ELSE IF StrRank(x) <= StrRank(Head(s)) THEN <<x>> \o s
    ELSE <<Head(s)>> \o InsertSorted(x, Tail(s))

\* list.sort()
RECURSIVE SortList(_)
SortList(s) == IF s = <<>> THEN <<>> ELSE InsertSorted(Head(s), SortList(Tail(s)))

\* list.remove(x): removes the first occurrence
RECURSIVE ListRemove(_, _)
ListRemove(s, x) ==
    IF s = <<>> THEN <<>>
    ELSE IF Head(s) = x THEN Tail(s)
    ELSE <<Head(s)>> \o ListRemove(Tail(s), x)

Count(s, x) == Cardinality({i \in DOMAIN s : s[i] = x})

IsPrefix(s, t) == Len(s) <= Len(t) /\ SubSeq(t, 1, Len(s)) = s

(***************************************************************************)
(* Events, listeners                                                       *)
(***************************************************************************)
NoneV == "None"
KeyCodes == {"a", "b"}
WindowNames == {"w"}
Events == KeyCodes \X WindowNames
\* the termination sentinel (None, None) of shutdown()
Sentinel == <<NoneV, NoneV>>

\* the expansion service, a KeyGrabber and a KeyRecorder
SERVICE == "service"
GRABBER == "grabber"
RECORDER == "recorder"
Dialogs == {GRABBER, RECORDER}

VARIABLES
    \* ---- IoMediator
    queue,        \* self.queue
    modifiers,    \* self.modifiers
    listeners,    \* IoMediator.listeners
    cancelled,    \* the backend has been cancelled (interface.cancel())
    \* ---- the consumer thread (IoMediator.run)
    cpc,          \* position in run()
    cur,          \* (keyCode, windowName) just dequeued
    numLock,      \* local numLock
    runMods,      \* local modifiers
    npIdx,        \* loop position in __getNonPrintingModifiersOn
    capsRd,       \* self.modifiers[Key.CAPSLOCK] as read for `shifted`
    shifted,      \* local shifted
    key,          \* local key
    bIdx,         \* position of the listener iterator
    \* ---- the thread calling shutdown()
    spc,
    \* ---- the capture thread inside handle_mouse_click
    mIdx,         \* position of the listener iterator, -1 outside the call
    \* ---- history
    enqueued,     \* events in the order of their put_nowait
    delivered,    \* events handed to the service's handle_keypress / handle_hotkey
    bCalls,       \* listener callbacks of the current broadcast, in order
    lateCallback, \* a listener callback was made after shutdown() had returned
    nClicks,      \* handle_mouse_click calls so far
    bStart,       \* the registry when the current broadcast began
    bTouched,     \* listeners (de)registered while the current broadcast runs
    rd,           \* modifier values read for the current event
    seen,         \* every content self.modifiers has had so far
    nNotif,       \* modifier notifications so far
    nDowns,       \* handle_modifier_down calls per modifier
    lastNotif,    \* last notification per modifier: "none", "down", "up"
    shutPending   \* events not yet handed to the service when shutdown() was called

dispVars == <<queue, modifiers, listeners, cancelled, cpc, cur, numLock, runMods,
              npIdx, capsRd, shifted, key, bIdx, spc, mIdx, enqueued, delivered,
              bCalls, lateCallback, nClicks, bStart, bTouched, rd, seen, nNotif, nDowns, lastNotif,
              shutPending>>

VARIABLES
    \* ---- outbound operations (IoMediator.send_string ... send_backspace)
    lock,              \* owner of self.interface.lock, NoneV when free
    releasedModifiers, \* self.releasedModifiers
    sendPc,            \* per calling thread: position in its operation
    sendOp,            \* per calling thread: the operation called and its argument
    sections,          \* per calling thread: sections of the split still to process
    accMods,           \* per calling thread: local modifiers of send_string
    loopIdx,           \* per calling thread: position of the loop being run
    \* ---- history
    backendLog         \* calls made to the backend, in order

sendVars == <<lock, releasedModifiers, sendPc, sendOp, sections, accMods, loopIdx,
              backendLog>>

VARIABLES
    \* ---- AbstractAbbreviation
    item,              \* the abbreviation settings of one item
    buffer,            \* the input buffer
    outcome            \* result of the last _should_trigger_abbreviation(buffer)

abbrVars == <<item, buffer, outcome>>

VARIABLES
    \* ---- the tree of Folder, Phrase and Script objects
    parent,            \* per node: self.parent, NoneV for None
    folders,           \* per folder: self.folders
    items,             \* per folder: self.items
    usageCount,        \* per node: self.usageCount
    cfg,               \* per node: abbreviation settings, modes and leaf settings
    expansion          \* result of the last build_phrase / process_buffer

treeVars == <<parent, folders, items, usageCount, cfg, expansion>>

VARIABLES
    \* ---- AbstractHotkey objects
    hotkeys,           \* per object: modifiers, hotKey, windowTitleRegex
    hkResult           \* result of the last check_hotkey

hkVars == <<hotkeys, hkResult>>

VARIABLES
    \* ---- Expansion handed to Phrase.parsePositionTokens
    cursorExp          \* the Expansion object and what was done with it

posVars == <<cursorExp>>

VARIABLES
    \* ---- history of the queue
    enqMods,           \* content of self.modifiers at each handle_keypress, in order
    deqNotif           \* modifier notifications applied before the last queue.get()

stampVars == <<enqMods, deqNotif>>

vars == <<dispVars, sendVars, abbrVars, treeVars, hkVars, posVars, stampVars>>

\* the variables outside each subsystem
otherVars == <<sendVars, abbrVars, treeVars, hkVars, posVars>>
notDispVars == <<otherVars, stampVars>>
notSendVars == <<abbrVars, treeVars, hkVars, posVars, stampVars>>
notAbbrVars == <<dispVars, sendVars, treeVars, hkVars, posVars, stampVars>>
notTreeVars == <<dispVars, sendVars, abbrVars, hkVars, posVars, stampVars>>
notHkVars == <<dispVars, sendVars, abbrVars, treeVars, posVars, stampVars>>
notPosVars == <<dispVars, sendVars, abbrVars, treeVars, hkVars, stampVars>>

\* no modifier read yet
EmptyMap == [m \in {} |-> FALSE]

\* self.modifiers as IoMediator.__init__ sets it: only numlock is on
InitModifiers == [m \in ModSet |-> m = NUMLOCK]

\* the consumer is between queue.get() and task_done()
Processing == cpc \notin {"get", "terminated"}

\* the backend's capture thread may call into the mediator
CaptureRuns == ~cancelled /\ mIdx = -1

(***************************************************************************)
(* Callbacks of the backend (capture thread)                               *)
(***************************************************************************)
\* the history kept beside a modifier notification
NoteNotif(modifier, kind) ==
    /\ nNotif' = nNotif + 1
    /\ nDowns' = IF kind = "down" THEN [nDowns EXCEPT ![modifier] = @ + 1] ELSE nDowns
    /\ lastNotif' = [lastNotif EXCEPT ![modifier] = kind]
    /\ seen' = seen \cup {modifiers'}

\* self.modifiers after handle_modifier_down(modifier)
ModifiersAfterDown(mods, modifier) ==
    IF modifier \in {CAPSLOCK, NUMLOCK}
    THEN IF mods[modifier]
         THEN [mods EXCEPT ![modifier] = FALSE]
         ELSE [mods EXCEPT ![modifier] = TRUE]
    ELSE [mods EXCEPT ![modifier] = TRUE]

\* handle_modifier_up that clears the lock keys as well
ModifiersAfterUpClearsLocks(mods, modifier) == [mods EXCEPT ![modifier] = FALSE]

\* self.modifiers after handle_modifier_up(modifier)
ModifiersAfterUp(mods, modifier) ==
    IF modifier \notin {CAPSLOCK, NUMLOCK}
    THEN [mods EXCEPT ![modifier] = FALSE]
    ELSE mods

HandleModifierDown(modifier) ==
    /\ CaptureRuns
    /\ modifiers' = ModifiersAfterDown(modifiers, modifier)
    /\ NoteNotif(modifier, "down")
    /\ UNCHANGED <<queue, listeners, cancelled, cpc, cur, numLock, runMods, npIdx,
                   capsRd, shifted, key, bIdx, spc, mIdx, enqueued, delivered, bCalls,
                   lateCallback, nClicks, bStart, bTouched, rd, shutPending,
                   notDispVars>>

HandleModifierUp(modifier) ==
    /\ CaptureRuns
    /\ modifiers' = ModifiersAfterUp(modifiers, modifier)
    /\ NoteNotif(modifier, "up")
    /\ UNCHANGED <<queue, listeners, cancelled, cpc, cur, numLock, runMods, npIdx,
                   capsRd, shifted, key, bIdx, spc, mIdx, enqueued, delivered, bCalls,
                   lateCallback, nClicks, bStart, bTouched, rd, shutPending,
                   notDispVars>>

\* Queue.put_nowait on the unbounded queue
QueuePut(q, elem) == Append(q, elem)

\* a get that hands out the newest item
QueueGetNewest(q) == q[Len(q)]

\* Queue.get: the item handed out and the queue left behind
QueueGetItem(q) == Head(q)
QueueGetRest(q) == Tail(q)

HandleKeypress(keyCode, windowName) ==
    /\ CaptureRuns
    /\ queue' = QueuePut(queue, <<keyCode, windowName>>)
    /\ enqueued' = Append(enqueued, <<keyCode, windowName>>)
    /\ enqMods' = Append(enqMods, modifiers)
    /\ UNCHANGED <<modifiers, listeners, cancelled, cpc, cur, numLock, runMods, npIdx,
                   capsRd, shifted, key, bIdx, spc, mIdx, delivered, bCalls,
                   lateCallback, nClicks, bStart, bTouched, rd, seen, nNotif, nDowns,
                   lastNotif, shutPending, deqNotif, otherVars>>

(***************************************************************************)
(* Listener callbacks                                                      *)
(***************************************************************************)
\* interface.lookup_string(keyCode, shifted, numLock, altGr): the backend's
\* keycode -> character lookup, kept uninterpreted
LookupString(keyCode, isShifted, numLockOn, altGr) ==
    <<keyCode, isShifted, numLockOn, altGr>>

\* IoMediator.listeners after target.handle_keypress(key, windowName):
\* a KeyGrabber deregisters itself, the other listeners leave the registry alone
ListenersAfterKeypress(ls, target, theKey) ==
    IF target = GRABBER /\ theKey \notin ModSet
    THEN ListRemove(ls, target)
    ELSE ls

\* one listener callback, as recorded in the history
Call(target, kind, theKey, theMods) ==
    [l |-> target, kind |-> kind, key |-> theKey, mods |-> theMods]

\* the history kept beside one callback of the consumer's broadcast
NoteCall(target, kind, theKey, theMods) ==
    /\ bCalls' = Append(bCalls, Call(target, kind, theKey, theMods))
    /\ delivered' = IF target = SERVICE THEN Append(delivered, cur) ELSE delivered
    /\ lateCallback' = (lateCallback \/ spc = "returned")

(***************************************************************************)
(* The consumer thread: IoMediator.run                                     *)
(***************************************************************************)
\* the value of self.modifiers[modifier], noted as read for the current event
NoteRead(modifier) ==
    rd' = [m \in DOMAIN rd \cup {modifier} |->
              IF m = modifier THEN modifiers[modifier] ELSE rd[m]]

\* keyCode, windowName = self.queue.get()
RunGet ==
    /\ cpc = "get"
    /\ queue # <<>>
    /\ cur' = QueueGetItem(queue)
    /\ queue' = QueueGetRest(queue)
    /\ cpc' = "numlock"
    /\ seen' = seen
    /\ rd' = EmptyMap
    /\ deqNotif' = nNotif
    /\ UNCHANGED <<modifiers, listeners, cancelled, numLock, runMods, npIdx, capsRd,
                   shifted, key, bIdx, spc, mIdx, enqueued, delivered, bCalls,
                   lateCallback, nClicks, bStart, bTouched, nNotif, nDowns, lastNotif,
                   shutPending, enqMods, otherVars>>

\* numLock = self.modifiers[Key.NUMLOCK]; the sentinel ends the loop
RunNumLock ==
    /\ cpc = "numlock"
    /\ numLock' = modifiers[NUMLOCK]
    /\ NoteRead(NUMLOCK)
    /\ IF cur[1] = NoneV /\ cur[2] = NoneV
       THEN cpc' = "terminated"
       ELSE cpc' = "nonprinting"
    /\ runMods' = <<>>
    /\ npIdx' = 0
    /\ UNCHANGED <<queue, modifiers, listeners, cancelled, cur, capsRd, shifted, key,
                   bIdx, spc, mIdx, enqueued, delivered, bCalls, lateCallback, nClicks,
                   bStart, bTouched, seen, nNotif, nDowns, lastNotif, shutPending,
                   notDispVars>>

\* one iteration of the loop of __getNonPrintingModifiersOn; after the last one
\* the list is sorted and run() tests it
RunNonPrinting ==
    /\ cpc = "nonprinting"
    /\ npIdx < Len(NON_PRINTING_MODIFIERS)
    /\ LET modifier == NON_PRINTING_MODIFIERS[npIdx + 1]
           found == IF modifiers[modifier] THEN Append(runMods, modifier) ELSE runMods
       IN  /\ NoteRead(modifier)
           /\ npIdx' = npIdx + 1
           /\ IF npIdx + 1 = Len(NON_PRINTING_MODIFIERS)
              THEN /\ runMods' = SortList(found)
                   /\ cpc' = IF Len(found) > 0 THEN "hk_shift" ELSE "kp_caps"
              ELSE /\ runMods' = found
                   /\ cpc' = cpc
    /\ UNCHANGED <<queue, modifiers, listeners, cancelled, cur, numLock, capsRd,
                   shifted, key, bIdx, spc, mIdx, enqueued, delivered, bCalls,
                   lateCallback, nClicks, bStart, bTouched, seen, nNotif, nDowns,
                   lastNotif, shutPending, notDispVars>>

\* the shift test of run() without modifiers.sort()
RunHotkeyShiftNoSort ==
    /\ cpc = "hk_shift"
    /\ NoteRead(SHIFT)
    /\ runMods' = IF modifiers[SHIFT] THEN Append(runMods, SHIFT) ELSE runMods
    /\ cpc' = "hk_lookup"
    /\ UNCHANGED <<queue, modifiers, listeners, cancelled, cur, numLock, npIdx, capsRd,
                   shifted, key, bIdx, spc, mIdx, enqueued, delivered, bCalls,
                   lateCallback, nClicks, bStart, bTouched, seen, nNotif, nDowns,
                   lastNotif, shutPending, notDispVars>>

\* if self.modifiers[Key.SHIFT]: modifiers.append(Key.SHIFT); modifiers.sort()
RunHotkeyShift ==
    /\ cpc = "hk_shift"
    /\ NoteRead(SHIFT)
    /\ runMods' = IF modifiers[SHIFT] THEN SortList(Append(runMods, SHIFT)) ELSE runMods
    /\ cpc' = "hk_lookup"
    /\ UNCHANGED <<queue, modifiers, listeners, cancelled, cur, numLock, npIdx, capsRd,
                   shifted, key, bIdx, spc, mIdx, enqueued, delivered, bCalls,
                   lateCallback, nClicks, bStart, bTouched, seen, nNotif, nDowns,
                   lastNotif, shutPending, notDispVars>>

\* key = self.interface.lookup_string(keyCode, False, numLock, self.modifiers[Key.ALT_GR])
RunHotkeyLookup ==
    /\ cpc = "hk_lookup"
    /\ NoteRead(ALT_GR)
    /\ key' = LookupString(cur[1], FALSE, numLock, modifiers[ALT_GR])
    /\ cpc' = "hk_bcast"
    /\ bIdx' = 0
    /\ bStart' = listeners
    /\ bTouched' = {}
    /\ UNCHANGED <<queue, modifiers, listeners, cancelled, cur, numLock, runMods,
                   npIdx, capsRd, shifted, spc, mIdx, enqueued, delivered, bCalls,
                   lateCallback, nClicks, seen, nNotif, nDowns, lastNotif, shutPending,
                   notDispVars>>

\* for target in self.listeners: target.handle_hotkey(key, modifiers, windowName)
RunHotkeyBroadcast ==
    /\ cpc = "hk_bcast"
    /\ IF bIdx < Len(listeners)
       THEN /\ NoteCall(listeners[bIdx + 1], "hotkey", key, runMods)
            /\ bIdx' = bIdx + 1
            /\ cpc' = cpc
       ELSE /\ cpc' = "task_done"
            /\ UNCHANGED <<delivered, bCalls, lateCallback, bIdx>>
    /\ UNCHANGED <<queue, modifiers, listeners, cancelled, cur, numLock, runMods,
                   npIdx, capsRd, shifted, key, spc, mIdx, enqueued, bStart, bTouched,
                   rd, seen, nNotif, nDowns, lastNotif, nClicks, shutPending,
                   notDispVars>>

\* shifted = self.modifiers[Key.CAPSLOCK] ^ self.modifiers[Key.SHIFT], left operand
RunKeypressCaps ==
    /\ cpc = "kp_caps"
    /\ NoteRead(CAPSLOCK)
    /\ capsRd' = modifiers[CAPSLOCK]
    /\ cpc' = "kp_shift"
    /\ UNCHANGED <<queue, modifiers, listeners, cancelled, cur, numLock, runMods,
                   npIdx, shifted, key, bIdx, spc, mIdx, enqueued, delivered, bCalls,
                   lateCallback, nClicks, bStart, bTouched, seen, nNotif, nDowns,
                   lastNotif, shutPending, notDispVars>>

\* ... right operand and the exclusive or
RunKeypressShift ==
    /\ cpc = "kp_shift"
    /\ NoteRead(SHIFT)
    /\ shifted' = (capsRd # modifiers[SHIFT])
    /\ cpc' = "kp_lookup"
    /\ UNCHANGED <<queue, modifiers, listeners, cancelled, cur, numLock, runMods,
                   npIdx, capsRd, key, bIdx, spc, mIdx, enqueued, delivered, bCalls,
                   lateCallback, nClicks, bStart, bTouched, seen, nNotif, nDowns,
                   lastNotif, shutPending, notDispVars>>

\* key = self.interface.lookup_string(keyCode, shifted, numLock, self.modifiers[Key.ALT_GR])
RunKeypressLookup ==
    /\ cpc = "kp_lookup"
    /\ NoteRead(ALT_GR)
    /\ key' = LookupString(cur[1], shifted, numLock, modifiers[ALT_GR])
    /\ cpc' = "kp_bcast"
    /\ bIdx' = 0
    /\ bStart' = listeners
    /\ bTouched' = {}
    /\ UNCHANGED <<queue, modifiers, listeners, cancelled, cur, numLock, runMods,
                   npIdx, capsRd, shifted, spc, mIdx, enqueued, delivered, bCalls,
                   lateCallback, nClicks, seen, nNotif, nDowns, lastNotif, shutPending,
                   notDispVars>>

\* for target in self.listeners: target.handle_keypress(key, windowName)
\* The iterator walks the live list by index.
RunKeypressBroadcast ==
    /\ cpc = "kp_bcast"
    /\ IF bIdx < Len(listeners)
       THEN LET target == listeners[bIdx + 1] IN
            /\ NoteCall(target, "keypress", key, <<>>)
            /\ listeners' = ListenersAfterKeypress(listeners, target, key)
            /\ bTouched' = IF listeners' # listeners THEN bTouched \cup {target}
                           ELSE bTouched
            /\ bIdx' = bIdx + 1
            /\ cpc' = cpc
       ELSE /\ cpc' = "task_done"
            /\ UNCHANGED <<delivered, bCalls, lateCallback, listeners, bTouched, bIdx>>
    /\ UNCHANGED <<queue, modifiers, cancelled, cur, numLock, runMods, npIdx, capsRd,
                   shifted, key, spc, mIdx, enqueued, bStart, rd, seen, nNotif, nDowns,
                   lastNotif, nClicks, shutPending, notDispVars>>

\* self.queue.task_done(), back to the top of the loop; the locals are dead
RunTaskDone ==
    /\ cpc = "task_done"
    /\ cpc' = "get"
    /\ cur' = Sentinel
    /\ numLock' = FALSE
    /\ runMods' = <<>>
    /\ npIdx' = 0
    /\ capsRd' = FALSE
    /\ shifted' = FALSE
    /\ key' = NoneV
    /\ bIdx' = 0
    /\ bStart' = <<>>
    /\ bTouched' = {}
    /\ rd' = EmptyMap
    /\ seen' = seen
    /\ bCalls' = <<>>
    /\ UNCHANGED <<queue, modifiers, listeners, cancelled, spc, mIdx, enqueued,
                   delivered, lateCallback, nClicks, nNotif, nDowns, lastNotif,
                   shutPending, notDispVars>>

(***************************************************************************)
(* IoMediator.shutdown, called by the application's thread                 *)
(***************************************************************************)
\* interface.cancel(): returns once the capture thread makes no further
\* callback into the mediator
InterfaceCancel ==
    /\ mIdx = -1
    /\ cancelled' = TRUE

\* a shutdown that leaves the backend running
ShutdownWithoutCancel ==
    /\ spc = "idle"
    /\ spc' = "put"
    /\ shutPending' = Len(enqueued) - Len(delivered)
    /\ UNCHANGED <<queue, modifiers, listeners, cancelled, cpc, cur, numLock, runMods,
                   npIdx, capsRd, shifted, key, bIdx, mIdx, enqueued, delivered,
                   bCalls, lateCallback, nClicks, bStart, bTouched, rd, seen, nNotif,
                   nDowns, lastNotif, notDispVars>>

\* self.interface.cancel()
ShutdownCancel ==
    /\ spc = "idle"
    /\ InterfaceCancel
    /\ spc' = "put"
    /\ shutPending' = Len(enqueued) - Len(delivered)
    /\ UNCHANGED <<queue, modifiers, listeners, cpc, cur, numLock, runMods, npIdx,
                   capsRd, shifted, key, bIdx, mIdx, enqueued, delivered, bCalls,
                   lateCallback, nClicks, bStart, bTouched, rd, seen, nNotif, nDowns,
                   lastNotif, notDispVars>>

\* self.queue.put_nowait((None, None))
ShutdownPut ==
    /\ spc = "put"
    /\ queue' = QueuePut(queue, Sentinel)
    /\ spc' = "join"
    /\ UNCHANGED <<modifiers, listeners, cancelled, cpc, cur, numLock, runMods, npIdx,
                   capsRd, shifted, key, bIdx, mIdx, enqueued, delivered, bCalls,
                   lateCallback, nClicks, bStart, bTouched, rd, seen, nNotif, nDowns,
                   lastNotif, shutPending, notDispVars>>

\* a shutdown that returns without waiting for the consumer
ShutdownWithoutJoin ==
    /\ spc = "join"
    /\ spc' = "returned"
    /\ UNCHANGED <<queue, modifiers, listeners, cancelled, cpc, cur, numLock, runMods,
                   npIdx, capsRd, shifted, key, bIdx, mIdx, enqueued, delivered,
                   bCalls, lateCallback, nClicks, bStart, bTouched, rd, seen, nNotif,
                   nDowns, lastNotif, shutPending, notDispVars>>

\* self.join()
ShutdownJoin ==
    /\ spc = "join"
    /\ cpc = "terminated"
    /\ spc' = "returned"
    /\ UNCHANGED <<queue, modifiers, listeners, cancelled, cpc, cur, numLock, runMods,
                   npIdx, capsRd, shifted, key, bIdx, mIdx, enqueued, delivered,
                   bCalls, lateCallback, nClicks, bStart, bTouched, rd, seen, nNotif,
                   nDowns, lastNotif, shutPending, notDispVars>>

(***************************************************************************)
(* The registry as changed by the dialogs' thread                          *)
(***************************************************************************)
InBroadcast == cpc \in {"hk_bcast", "kp_bcast"}

\* KeyGrabber.start (inherited by KeyRecorder): IoMediator.listeners.append(self)
KeyGrabberStart(self) ==
    /\ listeners' = Append(listeners, self)
    /\ bTouched' = IF InBroadcast THEN bTouched \cup {self} ELSE bTouched
    /\ UNCHANGED <<queue, modifiers, cancelled, cpc, cur, numLock, runMods, npIdx,
                   capsRd, shifted, key, bIdx, spc, mIdx, enqueued, delivered, bCalls,
                   lateCallback, nClicks, bStart, rd, seen, nNotif, nDowns, lastNotif,
                   shutPending, notDispVars>>

\* KeyRecorder.stop: IoMediator.listeners.remove(self); list.remove raises
\* ValueError and changes nothing when self is not in the list
KeyRecorderStop ==
    /\ RECORDER \in Range(listeners)
    /\ listeners' = ListRemove(listeners, RECORDER)
    /\ bTouched' = IF InBroadcast THEN bTouched \cup {RECORDER} ELSE bTouched
    /\ UNCHANGED <<queue, modifiers, cancelled, cpc, cur, numLock, runMods, npIdx,
                   capsRd, shifted, key, bIdx, spc, mIdx, enqueued, delivered, bCalls,
                   lateCallback, nClicks, bStart, rd, seen, nNotif, nDowns, lastNotif,
                   shutPending, notDispVars>>

\* a listener callback raises inside one of the `for target in self.listeners`
\* loops: run() has no try/except, the exception leaves run() and the
\* consumer thread ends
RunCallbackRaises ==
    /\ InBroadcast
    /\ bIdx < Len(listeners)
    /\ NoteCall(listeners[bIdx + 1], IF cpc = "hk_bcast" THEN "hotkey" ELSE "keypress",
                key, IF cpc = "hk_bcast" THEN runMods ELSE <<>>)
    /\ cpc' = "crashed"
    /\ UNCHANGED <<queue, modifiers, listeners, cancelled, cur, numLock, runMods, npIdx,
                   capsRd, shifted, key, bIdx, spc, mIdx, enqueued, bStart, bTouched,
                   rd, seen, nNotif, nDowns, lastNotif, nClicks, shutPending,
                   notDispVars>>

(***************************************************************************)
(* IoMediator.handle_mouse_click, run by the capture thread                *)
(***************************************************************************)
HandleMouseClick ==
    /\ CaptureRuns
    /\ mIdx' = 0
    /\ nClicks' = nClicks + 1
    /\ UNCHANGED <<queue, modifiers, listeners, cancelled, cpc, cur, numLock, runMods,
                   npIdx, capsRd, shifted, key, bIdx, spc, enqueued, delivered, bCalls,
                   lateCallback, bStart, bTouched, rd, seen, nNotif, nDowns, lastNotif,
                   shutPending, notDispVars>>

\* for target in self.listeners: target.handle_mouseclick()
MouseClickBroadcast ==
    /\ mIdx >= 0
    /\ IF mIdx < Len(listeners)
       THEN /\ lateCallback' = (lateCallback \/ spc = "returned")
            /\ mIdx' = mIdx + 1
       ELSE /\ mIdx' = -1
            /\ lateCallback' = lateCallback
    /\ UNCHANGED <<queue, modifiers, listeners, cancelled, cpc, cur, numLock, runMods,
                   npIdx, capsRd, shifted, key, bIdx, spc, enqueued, delivered, bCalls,
                   nClicks, bStart, bTouched, rd, seen, nNotif, nDowns, lastNotif,
                   shutPending, notDispVars>>

(***************************************************************************)
(* Strings sent for output.  A string is a sequence of characters; the     *)
(* name of a key is written with one letter: "t" for tab (a key that is    *)
(* no modifier), "s" for shift, so that <<"<","t",">">> is Key.TAB and      *)
(* <<"<","s",">">> is Key.SHIFT.  "a" is an ordinary character.             *)
(***************************************************************************)
TAB_TOKEN == <<"<", "t", ">">>
SHIFT_TOKEN == <<"<", "s", ">">>
BACKSPACE_TOKEN == <<"<", "b", ">">>
LEFT_TOKEN == <<"<", "l", ">">>
RIGHT_TOKEN == <<"<", "r", ">">>
UP_TOKEN == <<"<", "u", ">">>

\* the key names that can be told apart here (values of class Key)
KeyTokens == {TAB_TOKEN, SHIFT_TOKEN, BACKSPACE_TOKEN, LEFT_TOKEN, RIGHT_TOKEN, UP_TOKEN}
\* those of them in MODIFIERS
ModifierTokens == {SHIFT_TOKEN}

\* str.lower(): "A" and "L" are the upper-case forms of "a" and "l"
Lower(c) == IF c = "A" THEN "a" ELSE IF c = "L" THEN "l" ELSE c

LowerStr(str) == [i \in DOMAIN str |-> Lower(str[i])]

\* Key.is_key(keyString): key strings are compared in lower case
IsKey(keyString) == LowerStr(keyString) \in KeyTokens

\* the pieces the strings of the model are written with
Pieces == {<<"a">>, <<"+">>, <<"<">>, <<">">>, TAB_TOKEN, <<"<", "s", ">", "+">>}

RECURSIVE Flatten(_)
Flatten(ps) == IF ps = <<>> THEN <<>> ELSE Head(ps) \o Flatten(Tail(ps))

\* all strings written with at most n pieces
StringsOf(n) == UNION {{Flatten(ps) : ps \in [1..k -> Pieces]} : k \in 0..n}

\* KEY_SPLIT_RE = (<[^<>]+>\+?): the index of the last character of a match
\* that starts at index i, 0 when none starts there
MatchEnd(str, i) ==
    IF str[i] # "<" THEN 0
    ELSE LET stops == {k \in (i + 1)..Len(str) : str[k] \in {"<", ">"}}
         IN  IF stops = {} THEN 0
             ELSE LET k == CHOOSE x \in stops : \A y \in stops : x <= y
                  IN  IF str[k] # ">" \/ k = i + 1 THEN 0
                      ELSE IF k < Len(str) /\ str[k + 1] = "+" THEN k + 1
                      ELSE k

\* KEY_SPLIT_RE.split(string): the text between the matches and the matches,
\* alternating, from index i on with the text `lit` collected so far
RECURSIVE KeySplitFrom(_, _, _)
KeySplitFrom(str, i, lit) ==
    IF i > Len(str) THEN <<lit>>
    ELSE IF MatchEnd(str, i) > 0
         THEN <<lit, SubSeq(str, i, MatchEnd(str, i))>>
              \o KeySplitFrom(str, MatchEnd(str, i) + 1, <<>>)
         ELSE KeySplitFrom(str, i + 1, Append(lit, str[i]))

KeySplit(str) == KeySplitFrom(str, 1, <<>>)

\* section[:-1]
ButLast(section) == SubSeq(section, 1, Len(section) - 1)

\* is_key(section[:-1]) and section[-1] == '+' and section[:-1] in MODIFIERS
IsModifierApplication(section) ==
    /\ IsKey(ButLast(section))
    /\ section[Len(section)] = "+"
    /\ ButLast(section) \in ModifierTokens

(***************************************************************************)
(* Outbound operations of the mediator, called by the threads in Callers   *)
(***************************************************************************)
Callers == {"A", "B"}

NoOp == [name |-> NoneV, arg |-> <<>>, key |-> <<>>, count |-> 0]

\* one call to self.interface
BackendCall(t, op, arg, mods) == [t |-> t, op |-> op, arg |-> arg, mods |-> mods]

\* send_string(string): an empty string returns at once
SendStringCall(t, string) ==
    /\ sendPc[t] = "idle"
    /\ sendOp' = [sendOp EXCEPT ![t] = [NoOp EXCEPT !.name = "send_string", !.arg = string]]
    /\ sendPc' = [sendPc EXCEPT ![t] = IF Len(string) = 0 THEN "done" ELSE "ss_acquire"]
    /\ UNCHANGED <<lock, releasedModifiers, sections, accMods, loopIdx, backendLog,
                   dispVars, notSendVars>>

\* self.acquire_lock(); __clearModifiers starts with self.releasedModifiers = []
SendStringAcquire(t) ==
    /\ sendPc[t] = "ss_acquire"
    /\ lock = NoneV
    /\ lock' = t
    /\ releasedModifiers' = <<>>
    /\ loopIdx' = [loopIdx EXCEPT ![t] = 0]
    /\ sendPc' = [sendPc EXCEPT ![t] = "ss_clear"]
    /\ UNCHANGED <<sendOp, sections, accMods, backendLog, dispVars, notSendVars>>

\* one iteration of the loop of __clearModifiers (the keys are taken in the order
\* of MODIFIERS); after the last one the string is split
ClearModifiers(t) ==
    /\ sendPc[t] = "ss_clear"
    /\ IF loopIdx[t] < Len(MODIFIERS)
       THEN LET modifier == MODIFIERS[loopIdx[t] + 1] IN
            /\ IF modifiers[modifier] /\ modifier \notin {CAPSLOCK, NUMLOCK}
               THEN /\ releasedModifiers' = Append(releasedModifiers, modifier)
                    /\ backendLog' = Append(backendLog,
                                            BackendCall(t, "release_key", <<modifier>>, <<>>))
               ELSE UNCHANGED <<releasedModifiers, backendLog>>
            /\ loopIdx' = [loopIdx EXCEPT ![t] = @ + 1]
            /\ UNCHANGED <<sendPc, sections, accMods>>
       ELSE /\ accMods' = [accMods EXCEPT ![t] = <<>>]
            /\ sections' = [sections EXCEPT ![t] = KeySplit(sendOp[t].arg)]
            /\ sendPc' = [sendPc EXCEPT ![t] = "ss_section"]
            /\ UNCHANGED <<releasedModifiers, backendLog, loopIdx>>
    /\ UNCHANGED <<lock, sendOp, dispVars, notSendVars>>

\* the body of `for section in KEY_SPLIT_RE.split(string)` up to the first call
\* to the backend; when the sections are used up the lock is released
SendSection(t) ==
    /\ sendPc[t] = "ss_section"
    /\ IF sections[t] = <<>>
       THEN /\ sendPc' = [sendPc EXCEPT ![t] = "ss_release"]
            /\ UNCHANGED <<accMods, backendLog, loopIdx>>
       ELSE LET section == Head(sections[t]) IN
            /\ loopIdx' = [loopIdx EXCEPT ![t] = 0]
            /\ IF Len(section) > 0
               THEN IF IsModifierApplication(section)
                    THEN /\ accMods' = [accMods EXCEPT ![t] = Append(@, ButLast(section))]
                         /\ sendPc' = [sendPc EXCEPT ![t] = "ss_reapply"]
                         /\ UNCHANGED backendLog
                    ELSE IF Len(accMods[t]) > 0
                    THEN IF IsKey(section)
                         THEN /\ backendLog' = Append(backendLog,
                                      BackendCall(t, "send_modified_key", section, accMods[t]))
                              /\ sendPc' = [sendPc EXCEPT ![t] = "ss_reapply"]
                              /\ UNCHANGED accMods
                         ELSE /\ backendLog' = Append(backendLog,
                                      BackendCall(t, "send_modified_key", <<section[1]>>,
                                                  accMods[t]))
                              /\ IF Len(section) > 1
                                 THEN /\ sendPc' = [sendPc EXCEPT ![t] = "ss_rest"]
                                      /\ UNCHANGED accMods
                                 ELSE /\ sendPc' = [sendPc EXCEPT ![t] = "ss_reapply"]
                                      /\ accMods' = [accMods EXCEPT ![t] = <<>>]
                    ELSE /\ backendLog' = Append(backendLog,
                                 BackendCall(t, IF IsKey(section) THEN "send_key"
                                                ELSE "send_string", section, <<>>))
                         /\ sendPc' = [sendPc EXCEPT ![t] = "ss_reapply"]
                         /\ UNCHANGED accMods
               ELSE /\ sendPc' = [sendPc EXCEPT ![t] = "ss_reapply"]
                    /\ UNCHANGED <<accMods, backendLog>>
    /\ UNCHANGED <<lock, releasedModifiers, sendOp, sections, dispVars, notSendVars>>

\* self.interface.send_string(section[1:]); modifiers = []
SendSectionRest(t) ==
    /\ sendPc[t] = "ss_rest"
    /\ backendLog' = Append(backendLog,
                            BackendCall(t, "send_string", Tail(Head(sections[t])), <<>>))
    /\ accMods' = [accMods EXCEPT ![t] = <<>>]
    /\ sendPc' = [sendPc EXCEPT ![t] = "ss_reapply"]
    /\ UNCHANGED <<lock, releasedModifiers, sendOp, sections, loopIdx, dispVars,
                   notSendVars>>

\* self.__reapplyModifiers(), the last statement of the loop body: one
\* press_key per step, then on to the next section
ReapplyModifiers(t) ==
    /\ sendPc[t] = "ss_reapply"
    /\ IF loopIdx[t] < Len(releasedModifiers)
       THEN /\ backendLog' = Append(backendLog,
                    BackendCall(t, "press_key", <<releasedModifiers[loopIdx[t] + 1]>>, <<>>))
            /\ loopIdx' = [loopIdx EXCEPT ![t] = @ + 1]
            /\ UNCHANGED <<sendPc, sections>>
       ELSE /\ sections' = [sections EXCEPT ![t] = Tail(@)]
            /\ sendPc' = [sendPc EXCEPT ![t] = "ss_section"]
            /\ UNCHANGED <<backendLog, loopIdx>>
    /\ UNCHANGED <<lock, releasedModifiers, sendOp, accMods, dispVars, notSendVars>>

\* self.release_lock()
SendStringRelease(t) ==
    /\ sendPc[t] = "ss_release"
    /\ lock' = NoneV
    /\ sendPc' = [sendPc EXCEPT ![t] = "done"]
    /\ UNCHANGED <<releasedModifiers, sendOp, sections, accMods, loopIdx, backendLog,
                   dispVars, notSendVars>>

\* paste_string(string): nothing happens for an empty string
PasteStringCall(t, string) ==
    /\ sendPc[t] = "idle"
    /\ sendOp' = [sendOp EXCEPT ![t] = [NoOp EXCEPT !.name = "paste_string", !.arg = string]]
    /\ sendPc' = [sendPc EXCEPT ![t] = IF Len(string) > 0 THEN "ps_acquire" ELSE "done"]
    /\ UNCHANGED <<lock, releasedModifiers, sections, accMods, loopIdx, backendLog,
                   dispVars, notSendVars>>

PasteStringAcquire(t) ==
    /\ sendPc[t] = "ps_acquire"
    /\ lock = NoneV
    /\ lock' = t
    /\ sendPc' = [sendPc EXCEPT ![t] = "ps_send"]
    /\ UNCHANGED <<releasedModifiers, sendOp, sections, accMods, loopIdx, backendLog,
                   dispVars, notSendVars>>

PasteStringSend(t) ==
    /\ sendPc[t] = "ps_send"
    /\ backendLog' = Append(backendLog,
                            BackendCall(t, "send_string_clipboard", sendOp[t].arg, <<>>))
    /\ sendPc' = [sendPc EXCEPT ![t] = "ps_release"]
    /\ UNCHANGED <<lock, releasedModifiers, sendOp, sections, accMods, loopIdx,
                   dispVars, notSendVars>>

PasteStringRelease(t) ==
    /\ sendPc[t] = "ps_release"
    /\ lock' = NoneV
    /\ sendPc' = [sendPc EXCEPT ![t] = "done"]
    /\ UNCHANGED <<releasedModifiers, sendOp, sections, accMods, loopIdx, backendLog,
                   dispVars, notSendVars>>

\* thread t holds the lock and its next statement is a call to self.interface
AboutToCallBackend(t) ==
    \/ /\ sendPc[t] = "ss_clear"
       /\ loopIdx[t] < Len(MODIFIERS)
       /\ modifiers[MODIFIERS[loopIdx[t] + 1]]
       /\ MODIFIERS[loopIdx[t] + 1] \notin {CAPSLOCK, NUMLOCK}
    \/ /\ sendPc[t] = "ss_section"
       /\ sections[t] # <<>>
       /\ Len(Head(sections[t])) > 0
       /\ ~IsModifierApplication(Head(sections[t]))
    \/ sendPc[t] = "ss_rest"
    \/ sendPc[t] = "ss_reapply" /\ loopIdx[t] < Len(releasedModifiers)
    \/ sendPc[t] = "ps_send"

\* the call to self.interface raises: send_string and paste_string have no
\* try/finally, the exception leaves the method past self.release_lock()
BackendCallRaises(t) ==
    /\ lock = t
    /\ AboutToCallBackend(t)
    /\ sendPc' = [sendPc EXCEPT ![t] = "raised"]
    /\ UNCHANGED <<lock, releasedModifiers, sendOp, sections, accMods, loopIdx, backendLog,
                   dispVars, notSendVars>>

\* send_key(keyName): the lock is not taken
SendKey(t, keyName) ==
    /\ sendPc[t] = "idle"
    /\ sendOp' = [sendOp EXCEPT ![t] = [NoOp EXCEPT !.name = "send_key", !.arg = keyName]]
    /\ backendLog' = Append(backendLog, BackendCall(t, "send_key", keyName, <<>>))
    /\ sendPc' = [sendPc EXCEPT ![t] = "done"]
    /\ UNCHANGED <<lock, releasedModifiers, sections, accMods, loopIdx,
                   dispVars, notSendVars>>

\* entry of send_left, send_right, send_up and send_backspace: a loop of
\* `count` calls of interface.send_key, without the lock
RepeatCall(t, name, keyName, count) ==
    /\ sendPc[t] = "idle"
    /\ sendOp' = [sendOp EXCEPT ![t] = [NoOp EXCEPT !.name = name, !.key = keyName,
                                                     !.count = count]]
    /\ loopIdx' = [loopIdx EXCEPT ![t] = 0]
    /\ sendPc' = [sendPc EXCEPT ![t] = "repeat"]
    /\ UNCHANGED <<lock, releasedModifiers, sections, accMods, backendLog,
                   dispVars, notSendVars>>

SendLeft(t, count) == RepeatCall(t, "send_left", LEFT_TOKEN, count)

SendRight(t, count) == RepeatCall(t, "send_right", RIGHT_TOKEN, count)

SendUp(t, count) == RepeatCall(t, "send_up", UP_TOKEN, count)

SendBackspace(t, count) == RepeatCall(t, "send_backspace", BACKSPACE_TOKEN, count)

\* one iteration of `for i in range(count)`; range of a count below 1 is empty
RepeatSend(t) ==
    /\ sendPc[t] = "repeat"
    /\ IF loopIdx[t] < sendOp[t].count
       THEN /\ backendLog' = Append(backendLog,
                                    BackendCall(t, "send_key", sendOp[t].key, <<>>))
            /\ loopIdx' = [loopIdx EXCEPT ![t] = @ + 1]
            /\ UNCHANGED sendPc
       ELSE /\ sendPc' = [sendPc EXCEPT ![t] = "done"]
            /\ UNCHANGED <<backendLog, loopIdx>>
    /\ UNCHANGED <<lock, releasedModifiers, sendOp, sections, accMods,
                   dispVars, notSendVars>>

\* the count remove_string computes: -1, plus 1 for a section that is a key
\* and the length of any other section
RECURSIVE SectionsLength(_)
SectionsLength(secs) ==
    IF secs = <<>> THEN 0
    ELSE (IF IsKey(Head(secs)) THEN 1 ELSE Len(Head(secs))) + SectionsLength(Tail(secs))

Backspaces(string) == -1 + SectionsLength(KeySplit(string))

\* remove_string(string): self.send_backspace(backspaces)
RemoveString(t, string) ==
    /\ sendPc[t] = "idle"
    /\ sendOp' = [sendOp EXCEPT ![t] = [name |-> "remove_string", arg |-> string,
                                        key |-> BACKSPACE_TOKEN,
                                        count |-> Backspaces(string)]]
    /\ loopIdx' = [loopIdx EXCEPT ![t] = 0]
    /\ sendPc' = [sendPc EXCEPT ![t] = "repeat"]
    /\ UNCHANGED <<lock, releasedModifiers, sections, accMods, backendLog,
                   dispVars, notSendVars>>

\* the steps inside the outbound operations of thread t
SendSteps(t) ==
    \/ SendStringAcquire(t)
    \/ ClearModifiers(t)
    \/ SendSection(t)
    \/ SendSectionRest(t)
    \/ ReapplyModifiers(t)
    \/ SendStringRelease(t)
    \/ PasteStringAcquire(t)
    \/ PasteStringSend(t)
    \/ PasteStringRelease(t)
    \/ RepeatSend(t)

(***************************************************************************)
(* Abbreviation matching (model.py)                                        *)
(***************************************************************************)
\* the characters of the buffers: a lower-case letter, its upper-case form
\* and the space
Chars == {"a", "A", " "}

\* all strings of at most n characters
Strings(n) == UNION {[1..k -> Chars] : k \in 0..n}

\* DEFAULT_WORDCHAR_REGEX = '[\w]', as the set of characters it matches
DEFAULT_WORDCHAR_REGEX == {"a", "A"}

\* another character class, '[ ]': the space is the only word character
SPACE_WORDCHAR_REGEX == {" "}

\* AbstractAbbreviation.__init__; isNone says that self.abbreviation is None
DefaultItem ==
    [abbreviation |-> <<>>, isNone |-> TRUE, backspace |-> TRUE, ignoreCase |-> FALSE,
     immediate |-> FALSE, triggerInside |-> FALSE, wordChars |-> DEFAULT_WORDCHAR_REGEX]

NotCalled == [called |-> FALSE, raised |-> FALSE, value |-> FALSE]

(***************************************************************************)
(* The tree of folders, phrases and scripts (model.py)                     *)
(***************************************************************************)
ROOT == "root"
Folders == {ROOT, "f1", "f2"}
PHRASE == "p1"
SCRIPT == "s1"
Leaves == {PHRASE, SCRIPT}
Nodes == Folders \cup Leaves

\* TriggerMode.ABBREVIATION
ABBREVIATION == 1

\* the settings of a node as Folder.__init__, Phrase.__init__ and
\* Script.__init__ leave them (phrase is Phrase.phrase)
DefaultCfg ==
    [abbr |-> DefaultItem, modes |-> {}, omitTrigger |-> FALSE, matchCase |-> FALSE,
     phrase |-> <<>>]

\* the tree the configuration is loaded as: the root folder holds the folder
\* f1 and the script, f1 holds the phrase; the folder f2 is newly created and
\* in no folder yet
InitParent ==
    [n \in Nodes |-> CASE n = "f1" -> ROOT
                       [] n = SCRIPT -> ROOT
                       [] n = PHRASE -> "f1"
                       [] OTHER -> NoneV]

InitFolders == [f \in Folders |-> IF f = ROOT THEN <<"f1">> ELSE <<>>]

InitItems ==
    [f \in Folders |-> CASE f = ROOT -> <<SCRIPT>>
                         [] f = "f1" -> <<PHRASE>>
                         [] OTHER -> <<>>]

\* Expansion.__init__ and the values process_buffer starts from, before any call
NoExpansion ==
    [called |-> FALSE, raised |-> FALSE, op |-> NoneV, node |-> NoneV, buffer |-> <<>>,
     backspaces |-> 0, string |-> <<>>, keystrokes |-> 0]

(***************************************************************************)
(* Hotkey settings (AbstractHotkey, AbstractWindowFilter)                  *)
(***************************************************************************)
HotkeyObjs == {"ha", "hb"}

\* window titles, and a regular expression as the set of titles it matches
Titles == {"w", "x"}
NoFilter == [isNone |-> TRUE, matches |-> {}]

\* AbstractHotkey.__init__ and AbstractWindowFilter.__init__; `via` records
\* the call that last wrote self.modifiers and `given` the list that call was
\* handed (the argument of set_hotkey, the modifiers of the copied hotkey)
NewHotkey ==
    [modifiers |-> <<>>, hotKey |-> NoneV, windowTitleRegex |-> NoFilter,
     via |-> "init", given |-> <<>>]

NoCheck ==
    [called |-> FALSE, obj |-> NoneV, modifiers |-> <<>>, key |-> NoneV,
     windowTitle |-> NoneV, value |-> FALSE]

(***************************************************************************)
(* Cursor positioning (Phrase.parsePositionTokens)                         *)
(***************************************************************************)
\* the cursor marker, written with one character that occurs nowhere else
CURSOR_POSITION_TOKEN == <<"|">>

\* the members of iomediator.NAVIGATION_KEYS that can be told apart here
NAVIGATION_KEYS == <<LEFT_TOKEN, RIGHT_TOKEN, UP_TOKEN, BACKSPACE_TOKEN>>

\* Expansion(string), with what parsePositionTokens did to it:
\* given is the string before the call, raised tells the call ended in an
\* exception
NewExpansion(string) ==
    [string |-> string, lefts |-> 0, backspaces |-> 0,
     given |-> string, parsed |-> FALSE, raised |-> FALSE]

\* sub in str
Contains(str, sub) ==
    \E i \in 1..(Len(str) - Len(sub) + 1) : SubSeq(str, i, i + Len(sub) - 1) = sub

\* str.split(CURSOR_POSITION_TOKEN): the parts between the markers, from index
\* i on with the part collected so far
RECURSIVE SplitFrom(_, _, _)
SplitFrom(str, i, part) ==
    IF i > Len(str) THEN <<part>>
    ELSE IF <<str[i]>> = CURSOR_POSITION_TOKEN
         THEN <<part>> \o SplitFrom(str, i + 1, <<>>)
         ELSE SplitFrom(str, i + 1, Append(part, str[i]))

SplitAtCursor(str) == SplitFrom(str, 1, <<>>)

\* what `for section in KEY_SPLIT_RE.split(secondpart)` adds to expansion.lefts
RECURSIVE CountLefts(_)
CountLefts(secs) ==
    IF secs = <<>> THEN 0
    ELSE (IF ~IsKey(Head(secs)) \/ Head(secs) \in {<<" ">>, <<"\n">>}
          THEN Len(Head(secs)) ELSE 0) + CountLefts(Tail(secs))

\* parsePositionTokens(expansion): unpacking the split into two names raises
\* ValueError unless the marker occurs exactly once
ParsePositionTokens(exp) ==
    IF Contains(exp.string, CURSOR_POSITION_TOKEN)
    THEN LET parts == SplitAtCursor(exp.string) IN
         IF Len(parts) # 2
         THEN [exp EXCEPT !.parsed = TRUE, !.raised = TRUE]
         ELSE [exp EXCEPT
                 !.lefts = IF \E i \in DOMAIN NAVIGATION_KEYS :
                                  Contains(exp.string, NAVIGATION_KEYS[i])
                           THEN 0
                           ELSE @ + CountLefts(KeySplit(parts[2])),
                 !.string = parts[1] \o parts[2],
                 !.parsed = TRUE]
    ELSE [exp EXCEPT !.parsed = TRUE]

\* expansion = Expansion(string)
CreateExpansion(string) ==
    /\ cursorExp' = NewExpansion(string)
    /\ UNCHANGED notPosVars

\* phrase.parsePositionTokens(expansion)
ParsePositionTokensCall ==
    /\ ~cursorExp.raised
    /\ cursorExp' = ParsePositionTokens(cursorExp)
    /\ UNCHANGED notPosVars

\* the state after construction: IoMediator.__init__ (the listener registry
\* holds the service, the queue is empty, the threads are started), no
\* outbound operation called, AbstractAbbreviation.__init__
Init ==
    /\ queue = <<>>
    /\ modifiers = InitModifiers
    /\ listeners = <<SERVICE>>
    /\ cancelled = FALSE
    /\ cpc = "get"
    /\ cur = Sentinel
    /\ numLock = FALSE
    /\ runMods = <<>>
    /\ npIdx = 0
    /\ capsRd = FALSE
    /\ shifted = FALSE
    /\ key = NoneV
    /\ bIdx = 0
    /\ spc = "idle"
    /\ mIdx = -1
    /\ enqueued = <<>>
    /\ delivered = <<>>
    /\ bCalls = <<>>
    /\ lateCallback = FALSE
    /\ nClicks = 0
    /\ bStart = <<>>
    /\ bTouched = {}
    /\ rd = EmptyMap
    /\ seen = {InitModifiers}
    /\ nNotif = 0
    /\ nDowns = [m \in ModSet |-> 0]
    /\ lastNotif = [m \in ModSet |-> "none"]
    /\ shutPending = -1
    /\ lock = NoneV
    /\ releasedModifiers = <<>>
    /\ sendPc = [t \in Callers |-> "idle"]
    /\ sendOp = [t \in Callers |-> NoOp]
    /\ sections = [t \in Callers |-> <<>>]
    /\ accMods = [t \in Callers |-> <<>>]
    /\ loopIdx = [t \in Callers |-> 0]
    /\ backendLog = <<>>
    /\ item = DefaultItem
    /\ buffer = <<>>
    /\ outcome = NotCalled
    /\ parent = InitParent
    /\ folders = InitFolders
    /\ items = InitItems
    /\ usageCount = [n \in Nodes |-> 0]
    /\ cfg = [n \in Nodes |-> DefaultCfg]
    /\ expansion = NoExpansion
    /\ hotkeys = [h \in HotkeyObjs |-> NewHotkey]
    /\ hkResult = NoCheck
    /\ cursorExp = NewExpansion(<<>>)
    /\ enqMods = <<>>
    /\ deqNotif = 0

\* load_from_serialized(data)
LoadFromSerialized(data) ==
    /\ ~outcome.called
    /\ item' = data
    /\ UNCHANGED <<buffer, outcome, notAbbrVars>>

\* self.wordChars.match(str): the pattern is one character class, matched at
\* the start of str
WordCharsMatch(it, str) == Len(str) > 0 /\ str[1] \in it.wordChars

\* str.rfind(sep) counted from 1; 0 when sep does not occur at or before i
RECURSIVE RFind(_, _, _)
RFind(str, sep, i) ==
    IF i < 1 THEN 0
    ELSE IF SubSeq(str, i, i + Len(sep) - 1) = sep THEN i
    ELSE RFind(str, sep, i - 1)

\* str.rpartition(sep) for a non-empty sep
RPartition(str, sep) ==
    LET i == RFind(str, sep, Len(str) - Len(sep) + 1)
    IN  IF i = 0 THEN <<<<>>, <<>>, str>>
        ELSE <<SubSeq(str, 1, i - 1), sep, SubSeq(str, i + Len(sep), Len(str))>>

\* _partition_input(currentString)
PartitionInput(it, currentString) ==
    IF it.ignoreCase
    THEN LET parts == RPartition(LowerStr(currentString), it.abbreviation)
             abbrStart == Len(parts[1])
             abbrEnd == abbrStart + Len(parts[2])
         IN  <<parts[1], SubSeq(currentString, abbrStart + 1, abbrEnd), parts[3]>>
    ELSE RPartition(currentString, it.abbreviation)

\* rpartition raises TypeError for None and ValueError for an empty separator
PartitionRaises(it) == it.isNone \/ Len(it.abbreviation) = 0

\* a variant of the trigger character condition without the check of the
\* immediate option that the abbreviation is at the end of the buffer
TriggerCharRejectsNeverImmediate(it, stringAfter) ==
    IF ~it.immediate
    THEN IF Len(stringAfter) = 1 THEN WordCharsMatch(it, stringAfter)
         ELSE TRUE
    ELSE FALSE

\* a variant of the trigger character condition that lets a buffer pass when
\* nothing follows the abbreviation yet
TriggerCharRejectsUnlessEmpty(it, stringAfter) ==
    IF ~it.immediate
    THEN IF Len(stringAfter) = 1 THEN WordCharsMatch(it, stringAfter)
         ELSE Len(stringAfter) > 1
    ELSE Len(stringAfter) > 0

\* "Check trigger character condition": TRUE when the branch returns False
TriggerCharRejects(it, stringAfter) ==
    IF ~it.immediate
    THEN IF Len(stringAfter) = 1 THEN WordCharsMatch(it, stringAfter)
         ELSE TRUE
    ELSE Len(stringAfter) > 0

\* "Check chars ahead of abbr": TRUE when the branch returns False
CharsAheadReject(it, stringBefore) ==
    /\ Len(stringBefore) > 0
    /\ WordCharsMatch(it, <<stringBefore[Len(stringBefore)]>>)
    /\ ~it.triggerInside

\* _should_trigger_abbreviation(buffer)
ShouldTriggerAbbreviation(it, buf) ==
    LET parts == PartitionInput(it, buf)
    IN  IF Len(parts[2]) > 0
        THEN IF TriggerCharRejects(it, parts[3]) THEN FALSE
             ELSE IF CharsAheadReject(it, parts[1]) THEN FALSE
             ELSE TRUE
        ELSE FALSE

\* one call of _should_trigger_abbreviation
CallShouldTrigger(buf) ==
    /\ ~outcome.called
    /\ buffer' = buf
    /\ outcome' = IF PartitionRaises(item)
                  THEN [called |-> TRUE, raised |-> TRUE, value |-> FALSE]
                  ELSE [called |-> TRUE, raised |-> FALSE,
                        value |-> ShouldTriggerAbbreviation(item, buf)]
    /\ UNCHANGED <<item, notAbbrVars>>

\* the abbreviation settings load_from_serialized is given
Items ==
    {[abbreviation |-> ab, isNone |-> FALSE, backspace |-> TRUE, ignoreCase |-> ic,
      immediate |-> im, triggerInside |-> ti, wordChars |-> wc] :
        ab \in Strings(MaxAbbrLen), ic \in BOOLEAN, im \in BOOLEAN, ti \in BOOLEAN,
        wc \in {DEFAULT_WORDCHAR_REGEX, SPACE_WORDCHAR_REGEX}}

NextAbbr ==
    \/ \E data \in Items : LoadFromSerialized(data)
    \/ \E buf \in Strings(MaxBufLen) : CallShouldTrigger(buf)

SpecAbbr == Init /\ [][NextAbbr]_vars

(***************************************************************************)
(* Operations on the tree                                                  *)
(***************************************************************************)
\* the nodes reached from n by following self.parent, n included
RECURSIVE ParentChain(_)
ParentChain(n) == IF parent[n] = NoneV THEN {n} ELSE {n} \cup ParentChain(parent[n])

\* folder.add_folder(child)
AddFolder(folder, child) ==
    /\ parent' = [parent EXCEPT ![child] = folder]
    /\ folders' = [folders EXCEPT ![folder] = Append(@, child)]
    /\ UNCHANGED <<items, usageCount, cfg, expansion, notTreeVars>>

\* folder.remove_folder(child); list.remove raises ValueError when the child
\* is not in the list, and nothing is changed then
RemoveFolder(folder, child) ==
    /\ child \in Range(folders[folder])
    /\ folders' = [folders EXCEPT ![folder] = ListRemove(@, child)]
    /\ UNCHANGED <<parent, items, usageCount, cfg, expansion, notTreeVars>>

\* folder.add_item(leaf)
AddItem(folder, leaf) ==
    /\ parent' = [parent EXCEPT ![leaf] = folder]
    /\ items' = [items EXCEPT ![folder] = Append(@, leaf)]
    /\ UNCHANGED <<folders, usageCount, cfg, expansion, notTreeVars>>

\* folder.remove_item(leaf)
RemoveItem(folder, leaf) ==
    /\ leaf \in Range(items[folder])
    /\ items' = [items EXCEPT ![folder] = ListRemove(@, leaf)]
    /\ UNCHANGED <<parent, folders, usageCount, cfg, expansion, notTreeVars>>

\* a variant of increment_usage_count that stops at the folder it is called on
IncrementUsageCountNoRecursion(uc, folder) == [uc EXCEPT ![folder] = @ + 1]

\* folder.increment_usage_count(), on the counts uc
RECURSIVE IncrementUsageCount(_, _)
IncrementUsageCount(uc, folder) ==
    IF parent[folder] # NoneV
    THEN IncrementUsageCount([uc EXCEPT ![folder] = @ + 1], parent[folder])
    ELSE [uc EXCEPT ![folder] = @ + 1]

\* the first two statements of build_phrase and process_buffer:
\* self.usageCount += 1; self.parent.increment_usage_count()
\* (the second fails on None, after the first has been done)
CountUsage(leaf) ==
    IF parent[leaf] = NoneV THEN [usageCount EXCEPT ![leaf] = @ + 1]
    ELSE IncrementUsageCount([usageCount EXCEPT ![leaf] = @ + 1], parent[leaf])

\* TriggerMode.ABBREVIATION in self.modes and self.backspace, on a folder
\* whose abbreviation cannot be searched for
RECURSIVE BackspaceCountRaises(_, _)
BackspaceCountRaises(folder, buf) ==
    LET c == cfg[folder]
    IN  IF ABBREVIATION \in c.modes /\ c.abbr.backspace
        THEN \/ PartitionRaises(c.abbr)
             \/ /\ ~ShouldTriggerAbbreviation(c.abbr, buf)
                /\ parent[folder] # NoneV
                /\ BackspaceCountRaises(parent[folder], buf)
        ELSE parent[folder] # NoneV /\ BackspaceCountRaises(parent[folder], buf)

\* Folder.get_backspace_count(buffer)
RECURSIVE GetBackspaceCount(_, _)
GetBackspaceCount(folder, buf) ==
    LET c == cfg[folder]
    IN  IF /\ ABBREVIATION \in c.modes /\ c.abbr.backspace
           /\ ShouldTriggerAbbreviation(c.abbr, buf)
        THEN Len(c.abbr.abbreviation) + Len(PartitionInput(c.abbr, buf)[3])
        ELSE IF parent[folder] # NoneV THEN GetBackspaceCount(parent[folder], buf)
        ELSE 0

\* str.upper()
Upper(c) == IF c = "a" THEN "A" ELSE c

UpperStr(str) == [i \in DOMAIN str |-> Upper(str[i])]

\* cased characters
IsCased(c) == c \in {"a", "A"}

\* str.isupper(): a cased character, and no lower-case one
IsUpper(str) ==
    /\ \E i \in DOMAIN str : IsCased(str[i])
    /\ \A i \in DOMAIN str : str[i] # "a"

\* str.islower(): a cased character, and no upper-case one
IsLower(str) ==
    /\ \E i \in DOMAIN str : IsCased(str[i])
    /\ \A i \in DOMAIN str : str[i] # "A"

\* str.istitle(): a cased character; upper-case characters only after uncased
\* ones and lower-case characters only after cased ones
IsTitle(str) ==
    /\ \E i \in DOMAIN str : IsCased(str[i])
    /\ \A i \in DOMAIN str :
          /\ str[i] = "A" => (i = 1 \/ ~IsCased(str[i - 1]))
          /\ str[i] = "a" => (i > 1 /\ IsCased(str[i - 1]))

\* str.capitalize(): the first character upper-cased, the others lower-cased
Capitalize(str) == [i \in DOMAIN str |-> IF i = 1 THEN Upper(str[i]) ELSE Lower(str[i])]

\* the matchCase branch of build_phrase
MirrorCase(typedAbbr, str) ==
    IF IsTitle(typedAbbr) THEN Capitalize(str)
    ELSE IF IsUpper(typedAbbr) THEN UpperStr(str)
    ELSE IF IsLower(typedAbbr) THEN LowerStr(str)
    ELSE str

\* a variant of the backspace count that always erases the abbreviation
TriggerBackspacesAlways(it, stringAfter) == Len(it.abbreviation) + Len(stringAfter)

\* "determine how many backspaces to send"
TriggerBackspaces(it, stringAfter) ==
    IF it.backspace THEN Len(it.abbreviation) + Len(stringAfter)
    ELSE Len(stringAfter)

\* if not self.omitTrigger: string += stringAfter
WithTrigger(c, str, stringAfter) ==
    IF ~c.omitTrigger THEN str \o stringAfter ELSE str

\* the abbreviation of the leaf is searched for, and cannot be
LeafRaises(leaf) == ABBREVIATION \in cfg[leaf].modes /\ PartitionRaises(cfg[leaf].abbr)

\* self._should_trigger_abbreviation(buffer), asked when the mode is enabled
TriggerFound(leaf, buf) ==
    /\ ABBREVIATION \in cfg[leaf].modes
    /\ ShouldTriggerAbbreviation(cfg[leaf].abbr, buf)

\* what a call on `leaf` that raises leaves behind
Raised(op, node, buf) ==
    [NoExpansion EXCEPT !.called = TRUE, !.raised = TRUE, !.op = op, !.node = node,
                        !.buffer = buf]

\* the Expansion build_phrase returns
PhraseExpansion(leaf, buf) ==
    LET c == cfg[leaf]
        parts == PartitionInput(c.abbr, buf)
    IN  IF TriggerFound(leaf, buf)
        THEN [called |-> TRUE, raised |-> FALSE, op |-> "build_phrase", node |-> leaf,
              buffer |-> buf, keystrokes |-> 0,
              backspaces |-> TriggerBackspaces(c.abbr, parts[3]),
              string |-> IF c.matchCase
                         THEN MirrorCase(parts[2], WithTrigger(c, c.phrase, parts[3]))
                         ELSE WithTrigger(c, c.phrase, parts[3])]
        ELSE [called |-> TRUE, raised |-> FALSE, op |-> "build_phrase", node |-> leaf,
              buffer |-> buf, keystrokes |-> 0,
              backspaces |-> GetBackspaceCount(parent[leaf], buf),
              string |-> c.phrase]

\* Phrase.build_phrase(buffer)
BuildPhrase(leaf, buf) ==
    /\ usageCount' = CountUsage(leaf)
    /\ expansion' =
          IF parent[leaf] = NoneV \/ LeafRaises(leaf) THEN Raised("build_phrase", leaf, buf)
          ELSE IF ~TriggerFound(leaf, buf) /\ BackspaceCountRaises(parent[leaf], buf)
          THEN Raised("build_phrase", leaf, buf)
          ELSE PhraseExpansion(leaf, buf)
    /\ UNCHANGED <<parent, folders, items, cfg, notTreeVars>>

\* the pair (backspaces, string) process_buffer returns
ScriptResult(leaf, buf) ==
    LET c == cfg[leaf]
        parts == PartitionInput(c.abbr, buf)
    IN  IF TriggerFound(leaf, buf)
        THEN [called |-> TRUE, raised |-> FALSE, op |-> "process_buffer", node |-> leaf,
              buffer |-> buf, keystrokes |-> 0,
              backspaces |-> TriggerBackspaces(c.abbr, parts[3]),
              string |-> WithTrigger(c, <<>>, parts[3])]
        ELSE [called |-> TRUE, raised |-> FALSE, op |-> "process_buffer", node |-> leaf,
              buffer |-> buf, keystrokes |-> 0,
              backspaces |-> GetBackspaceCount(parent[leaf], buf),
              string |-> <<>>]

\* Script.process_buffer(buffer)
ProcessBuffer(leaf, buf) ==
    /\ usageCount' = CountUsage(leaf)
    /\ expansion' =
          IF parent[leaf] = NoneV \/ LeafRaises(leaf) THEN Raised("process_buffer", leaf, buf)
          ELSE IF ~TriggerFound(leaf, buf) /\ BackspaceCountRaises(parent[leaf], buf)
          THEN Raised("process_buffer", leaf, buf)
          ELSE ScriptResult(leaf, buf)
    /\ UNCHANGED <<parent, folders, items, cfg, notTreeVars>>

\* Phrase.load_from_serialized(data, parent) and Script.load_from_serialized:
\* data holds the settings, count is data["usageCount"]
LeafLoadFromSerialized(leaf, data, count, par) ==
    /\ cfg' = [cfg EXCEPT ![leaf] = data]
    /\ usageCount' = [usageCount EXCEPT ![leaf] = count]
    /\ parent' = [parent EXCEPT ![leaf] = par]
    /\ UNCHANGED <<folders, items, expansion, notTreeVars>>

\* set_modes(modes)
SetModes(n, modes) ==
    /\ ~expansion.called
    /\ cfg' = [cfg EXCEPT ![n].modes = modes]
    /\ UNCHANGED <<parent, folders, items, usageCount, expansion, notTreeVars>>

\* AbstractAbbreviation.load_from_serialized(data) on a node of the tree
NodeLoadAbbreviation(n, data) ==
    /\ ~expansion.called
    /\ cfg' = [cfg EXCEPT ![n].abbr = data]
    /\ UNCHANGED <<parent, folders, items, usageCount, expansion, notTreeVars>>

\* folder.get_backspace_count(buffer), called from outside
CallGetBackspaceCount(folder, buf) ==
    /\ ~expansion.called
    /\ expansion' =
          IF BackspaceCountRaises(folder, buf)
          THEN Raised("get_backspace_count", folder, buf)
          ELSE [NoExpansion EXCEPT !.called = TRUE, !.op = "get_backspace_count",
                                   !.node = folder, !.buffer = buf,
                                   !.backspaces = GetBackspaceCount(folder, buf)]
    /\ UNCHANGED <<parent, folders, items, usageCount, cfg, notTreeVars>>

\* the test Folder.calculate_input makes before it asks for the match
FolderAsksMatch(c) == ABBREVIATION \in c.modes /\ c.abbr.backspace

\* Folder.calculate_input raises: the abbreviation of a folder that is asked
\* cannot be searched for
RECURSIVE FolderCalculateInputRaises(_, _)
FolderCalculateInputRaises(folder, buf) ==
    LET c == cfg[folder]
    IN  IF FolderAsksMatch(c)
        THEN \/ PartitionRaises(c.abbr)
             \/ /\ ~ShouldTriggerAbbreviation(c.abbr, buf)
                /\ parent[folder] # NoneV
                /\ FolderCalculateInputRaises(parent[folder], buf)
        ELSE parent[folder] # NoneV /\ FolderCalculateInputRaises(parent[folder], buf)

\* the keystrokes of a match: len(self.abbreviation), + 1 unless immediate
MatchKeystrokes(it) ==
    IF it.immediate THEN Len(it.abbreviation) ELSE Len(it.abbreviation) + 1

\* Folder.calculate_input(buffer)
RECURSIVE FolderCalculateInput(_, _)
FolderCalculateInput(folder, buf) ==
    LET c == cfg[folder]
    IN  IF FolderAsksMatch(c) /\ ShouldTriggerAbbreviation(c.abbr, buf)
        THEN MatchKeystrokes(c.abbr)
        ELSE IF parent[folder] # NoneV THEN FolderCalculateInput(parent[folder], buf)
        ELSE 0

\* Phrase.calculate_input raises (the phrase has no hotkey mode here)
PhraseCalculateInputRaises(leaf, buf) ==
    \/ LeafRaises(leaf)
    \/ /\ ~TriggerFound(leaf, buf)
       /\ parent[leaf] = NoneV \/ FolderCalculateInputRaises(parent[leaf], buf)

\* Phrase.calculate_input(buffer)
PhraseCalculateInput(leaf, buf) ==
    IF TriggerFound(leaf, buf) THEN MatchKeystrokes(cfg[leaf].abbr)
    ELSE FolderCalculateInput(parent[leaf], buf)

\* node.calculate_input(buffer), called from outside
CallCalculateInput(n, buf) ==
    /\ ~expansion.called
    /\ expansion' =
          IF IF n \in Folders THEN FolderCalculateInputRaises(n, buf)
             ELSE PhraseCalculateInputRaises(n, buf)
          THEN Raised("calculate_input", n, buf)
          ELSE [NoExpansion EXCEPT !.called = TRUE, !.op = "calculate_input",
                                   !.node = n, !.buffer = buf,
                                   !.keystrokes = IF n \in Folders
                                                  THEN FolderCalculateInput(n, buf)
                                                  ELSE PhraseCalculateInput(n, buf)]
    /\ UNCHANGED <<parent, folders, items, usageCount, cfg, notTreeVars>>

(***************************************************************************)
(* Hotkeys and window filters                                              *)
(***************************************************************************)
\* the modifiers a hotkey is configured with, and the lists a caller passes:
\* every order of every subset
HkMods == {ALT, CONTROL}
HkModLists == {<<>>, <<ALT>>, <<CONTROL>>, <<ALT, CONTROL>>, <<CONTROL, ALT>>}
\* the active modifiers as the mediator passes them: sorted
ActiveLists == {SortList(l) : l \in HkModLists}
\* a compiled pattern, by the titles re.match accepts
WindowFilters == {NoFilter, [isNone |-> FALSE, matches |-> {"w"}]}

\* AbstractWindowFilter.set_window_titles(regex)
SetWindowTitles(h, regex) ==
    /\ ~hkResult.called
    /\ hotkeys' = [hotkeys EXCEPT ![h].windowTitleRegex = regex]
    /\ UNCHANGED <<hkResult, notHkVars>>

\* AbstractWindowFilter._should_trigger_window_title(windowTitle)
ShouldTriggerWindowTitle(hk, windowTitle) ==
    IF ~hk.windowTitleRegex.isNone
    THEN windowTitle \in hk.windowTitleRegex.matches
    ELSE TRUE

\* set_hotkey without modifiers.sort()
SetHotkeyNoSort(h, mods, hotKey) ==
    /\ ~hkResult.called
    /\ hotkeys' = [hotkeys EXCEPT ![h].modifiers = mods,
                                  ![h].hotKey = hotKey,
                                  ![h].via = "set",
                                  ![h].given = mods]
    /\ UNCHANGED <<hkResult, notHkVars>>

\* AbstractHotkey.set_hotkey(modifiers, key); the caller passes a list of its
\* own, which no other hotkey holds
SetHotkey(h, mods, hotKey) ==
    /\ ~hkResult.called
    /\ hotkeys' = [hotkeys EXCEPT ![h].modifiers = SortList(mods),
                                  ![h].hotKey = hotKey,
                                  ![h].via = "set",
                                  ![h].given = mods]
    /\ UNCHANGED <<hkResult, notHkVars>>

\* AbstractHotkey.load_from_serialized(data)
HotkeyLoadFromSerialized(h, data) == SetHotkey(h, data.modifiers, data.hotKey)

\* AbstractHotkey.copy_hotkey(theHotkey): appends to self.modifiers, which is
\* not emptied first; theHotkey is another object than self
CopyHotkey(h, theHotkey) ==
    /\ ~hkResult.called
    /\ h # theHotkey
    /\ Len(hotkeys[h].modifiers) + Len(hotkeys[theHotkey].modifiers) <= MaxHkLen
    /\ hotkeys' = [hotkeys EXCEPT
                      ![h].modifiers = hotkeys[h].modifiers \o hotkeys[theHotkey].modifiers,
                      ![h].hotKey = hotkeys[theHotkey].hotKey,
                      ![h].via = "copy",
                      ![h].given = hotkeys[theHotkey].modifiers]
    /\ UNCHANGED <<hkResult, notHkVars>>

\* the value check_hotkey returns
CheckHotkeyValue(hk, activeMods, keyCode, windowTitle) ==
    IF hk.hotKey # NoneV /\ ShouldTriggerWindowTitle(hk, windowTitle)
    THEN hk.modifiers = activeMods /\ hk.hotKey = keyCode
    ELSE FALSE

\* AbstractHotkey.check_hotkey(modifiers, key, windowTitle)
CheckHotkey(h, activeMods, keyCode, windowTitle) ==
    /\ ~hkResult.called
    /\ hkResult' = [called |-> TRUE, obj |-> h, modifiers |-> activeMods, key |-> keyCode,
                    windowTitle |-> windowTitle,
                    value |-> CheckHotkeyValue(hotkeys[h], activeMods, keyCode, windowTitle)]
    /\ UNCHANGED <<hotkeys, notHkVars>>

(***************************************************************************)
(* Specifications of the dispatcher                                        *)
(***************************************************************************)
Consumer ==
    \/ RunGet
    \/ RunNumLock
    \/ RunNonPrinting
    \/ RunHotkeyShift
    \/ RunHotkeyLookup
    \/ RunHotkeyBroadcast
    \/ RunKeypressCaps
    \/ RunKeypressShift
    \/ RunKeypressLookup
    \/ RunKeypressBroadcast
    \/ RunTaskDone

\* the modifiers pressed in SpecDispatch and SpecRegistry
FewMods == {CONTROL, SHIFT}

\* the queue and shutdown
NextDispatch ==
    \/ Consumer
    \/ \E k \in KeyCodes, w \in WindowNames :
           Len(enqueued) < MaxEvents /\ HandleKeypress(k, w)
    \/ \E m \in FewMods : nNotif < MaxNotifs /\ HandleModifierDown(m)
    \/ \E m \in FewMods : nNotif < MaxNotifs /\ HandleModifierUp(m)
    \/ nClicks < MaxClicks /\ HandleMouseClick
    \/ MouseClickBroadcast
    \/ ShutdownCancel
    \/ ShutdownPut
    \/ ShutdownJoin

SpecDispatch == Init /\ [][NextDispatch]_vars

\* the registry against the consumer's broadcast
NextRegistry ==
    \/ Consumer
    \/ \E k \in KeyCodes, w \in WindowNames :
           Len(enqueued) < MaxRegEvents /\ HandleKeypress(k, w)
    \/ \E m \in FewMods : nNotif < MaxRegNotifs /\ HandleModifierDown(m)
    \/ \E m \in FewMods : nNotif < MaxRegNotifs /\ HandleModifierUp(m)
    \/ \E d \in Dialogs : Len(listeners) < MaxListeners /\ KeyGrabberStart(d)
    \/ KeyRecorderStop

SpecRegistry == Init /\ [][NextRegistry]_vars

\* the dispatcher with listeners whose callbacks may raise
NextFailure ==
    \/ Consumer
    \/ RunCallbackRaises
    \/ \E k \in KeyCodes, w \in WindowNames :
           Len(enqueued) < MaxEvents /\ HandleKeypress(k, w)
    \/ \E m \in FewMods : nNotif < MaxRegNotifs /\ HandleModifierDown(m)
    \/ \E m \in FewMods : nNotif < MaxRegNotifs /\ HandleModifierUp(m)
    \/ Len(listeners) < MaxListeners - 1 /\ KeyGrabberStart(RECORDER)
    \/ ShutdownCancel
    \/ ShutdownPut

SpecFailure == Init /\ [][NextFailure]_vars

\* modifier tracking against the consumer's reads: few events, no shutdown
NextMods ==
    \/ Consumer
    \/ \E k \in KeyCodes, w \in WindowNames :
           Len(enqueued) < MaxModEvents /\ HandleKeypress(k, w)
    \/ \E m \in ModSet : nNotif < MaxModNotifs /\ HandleModifierDown(m)
    \/ \E m \in ModSet : nNotif < MaxModNotifs /\ HandleModifierUp(m)

SpecMods == Init /\ [][NextMods]_vars

(***************************************************************************)
(* Specifications of the outbound operations                               *)
(***************************************************************************)
\* the modifiers the user presses and releases around a send_string
SendMods == {CONTROL, CAPSLOCK}

\* one thread sending, the capture thread tracking the modifiers
NextSend ==
    \/ sendPc["A"] = "idle" /\ \E string \in StringsOf(MaxPieces) : SendStringCall("A", string)
    \/ sendPc["A"] = "idle" /\ \E string \in StringsOf(MaxPieces) : RemoveString("A", string)
    \/ sendPc["A"] = "idle" /\ \E string \in StringsOf(1) : PasteStringCall("A", string)
    \/ SendKey("A", TAB_TOKEN)
    \/ sendPc["A"] = "idle" /\ \E count \in 0..MaxCount : SendLeft("A", count)
    \/ sendPc["A"] = "idle" /\ \E count \in 0..MaxCount : SendRight("A", count)
    \/ sendPc["A"] = "idle" /\ \E count \in 0..MaxCount : SendUp("A", count)
    \/ sendPc["A"] = "idle" /\ \E count \in 0..MaxCount : SendBackspace("A", count)
    \/ SendSteps("A")
    \/ \E m \in SendMods : nNotif < MaxSendNotifs /\ HandleModifierDown(m)
    \/ \E m \in SendMods : nNotif < MaxSendNotifs /\ HandleModifierUp(m)

SpecSend == Init /\ [][NextSend]_vars

\* the strings the two threads of SpecLock send, paste and remove
LockStrings ==
    {<<>>, <<"a">>, TAB_TOKEN, <<"a">> \o TAB_TOKEN, SHIFT_TOKEN \o <<"+", "a", "a">>}

\* two threads sending at once
NextLock ==
    \/ \E t \in Callers, string \in LockStrings : SendStringCall(t, string)
    \/ \E t \in Callers, string \in LockStrings : RemoveString(t, string)
    \/ \E t \in Callers, string \in LockStrings : PasteStringCall(t, string)
    \/ \E t \in Callers : SendKey(t, TAB_TOKEN)
    \/ \E t \in Callers, count \in 0..MaxCount : SendLeft(t, count)
    \/ \E t \in Callers, count \in 0..MaxCount : SendRight(t, count)
    \/ \E t \in Callers, count \in 0..MaxCount : SendUp(t, count)
    \/ \E t \in Callers, count \in 0..MaxCount : SendBackspace(t, count)
    \/ \E t \in Callers : SendSteps(t)
    \/ nNotif < MaxLockNotifs /\ HandleModifierDown(CONTROL)
    \/ nNotif < MaxLockNotifs /\ HandleModifierUp(CONTROL)

SpecLock == Init /\ [][NextLock]_vars

\* two threads sending at once, with backend calls that can fail
NextLockFailure ==
    \/ \E t \in Callers, string \in LockStrings : SendStringCall(t, string)
    \/ \E t \in Callers, string \in LockStrings : PasteStringCall(t, string)
    \/ \E t \in Callers : SendBackspace(t, MaxCount)
    \/ \E t \in Callers : SendSteps(t)
    \/ \E t \in Callers : BackendCallRaises(t)
    \/ nNotif < MaxLockNotifs /\ HandleModifierDown(CONTROL)
    \/ nNotif < MaxLockNotifs /\ HandleModifierUp(CONTROL)

SpecLockFailure == Init /\ [][NextLockFailure]_vars

\* the pieces the expansions handed to parsePositionTokens are written with
CursorPieces ==
    {<<"a">>, CURSOR_POSITION_TOKEN, TAB_TOKEN, LEFT_TOKEN, <<"<", "L", ">">>,
     <<"<", "s", ">", "+">>}

\* all expansion strings written with at most n pieces
CursorStrings(n) == UNION {{Flatten(ps) : ps \in [1..k -> CursorPieces]} : k \in 0..n}

\* expansions are created and positioned
NextCursor ==
    \/ \E string \in CursorStrings(MaxCursorPieces) : CreateExpansion(string)
    \/ ParsePositionTokensCall

SpecCursor == Init /\ [][NextCursor]_vars

(***************************************************************************)
(* Specifications of the tree                                              *)
(***************************************************************************)
\* the folders and the leaves that are in the child list of no folder
InNoFolder(n) == \A f \in Folders : n \notin Range(folders[f]) /\ n \notin Range(items[f])

\* the tree is edited (a node is added only while it is in no folder, and
\* never beneath itself) and its leaves are used
NextTree ==
    \/ \E f \in Folders, g \in Folders \ {ROOT} :
          /\ InNoFolder(g) /\ g \notin ParentChain(f)
          /\ AddFolder(f, g)
    \/ \E f \in Folders, g \in Folders : RemoveFolder(f, g)
    \/ \E f \in Folders, l \in Leaves : InNoFolder(l) /\ AddItem(f, l)
    \/ \E f \in Folders, l \in Leaves : RemoveItem(f, l)
    \/ usageCount[PHRASE] + usageCount[SCRIPT] < MaxBuilds /\ BuildPhrase(PHRASE, <<>>)
    \/ usageCount[PHRASE] + usageCount[SCRIPT] < MaxBuilds /\ ProcessBuffer(SCRIPT, <<>>)

SpecTree == Init /\ [][NextTree]_vars

\* the replacement texts of the phrase
PhraseTexts == {<<"a", "A">>, <<"A", " ", "a">>}

\* the abbreviation settings of a leaf that is built
BuildItems ==
    {[it EXCEPT !.backspace = b] : it \in {i \in Items : i.triggerInside}, b \in BOOLEAN}

\* the settings a phrase is loaded with
PhraseConfigs ==
    {[abbr |-> it, modes |-> {ABBREVIATION}, omitTrigger |-> o, matchCase |-> m,
      phrase |-> t] : it \in BuildItems, o \in BOOLEAN, m \in BOOLEAN, t \in PhraseTexts}
    \cup {[DefaultCfg EXCEPT !.phrase = t] : t \in PhraseTexts}

\* the settings a script is loaded with
ScriptConfigs ==
    {[abbr |-> it, modes |-> {ABBREVIATION}, omitTrigger |-> o, matchCase |-> FALSE,
      phrase |-> <<>>] : it \in BuildItems, o \in BOOLEAN}

\* one leaf is loaded with its settings and then expanded once
NextBuild ==
    \/ /\ ~expansion.called /\ cfg[PHRASE] = DefaultCfg /\ cfg[SCRIPT] = DefaultCfg
       /\ \E data \in PhraseConfigs :
             LeafLoadFromSerialized(PHRASE, data, 0, parent[PHRASE])
    \/ /\ ~expansion.called /\ cfg[PHRASE] = DefaultCfg /\ cfg[SCRIPT] = DefaultCfg
       /\ \E data \in ScriptConfigs :
             LeafLoadFromSerialized(SCRIPT, data, 0, parent[SCRIPT])
    \/ /\ ~expansion.called /\ cfg[SCRIPT] = DefaultCfg
       /\ \E buf \in Strings(MaxBuildBufLen) : BuildPhrase(PHRASE, buf)
    \/ /\ ~expansion.called /\ cfg[PHRASE] = DefaultCfg
       /\ \E buf \in Strings(MaxBuildBufLen) : ProcessBuffer(SCRIPT, buf)

SpecBuild == Init /\ [][NextBuild]_vars

(***************************************************************************)
(* Specification of the folder chain root <- f1 <- p1 (s1 in root): the    *)
(* settings of the nodes are written, then one operation is called         *)
(***************************************************************************)
\* the abbreviation settings written to the nodes of the chain
ChainItems ==
    {[DefaultItem EXCEPT !.abbreviation = ab, !.isNone = FALSE, !.backspace = b,
                         !.immediate = im] :
        ab \in {<<"a">>, <<" ", "a">>}, b \in BOOLEAN, im \in BOOLEAN}
    \cup {DefaultItem}

\* the buffers the operations are called with
ChainBuffers == {<<>>, <<"a">>, <<" ", "a">>, <<"a", " ">>, <<" ", "a", " ">>, <<"A", "a">>}

ChainNodes == {ROOT, "f1", PHRASE}

NextChain ==
    \/ \E n \in ChainNodes, modes \in {{}, {ABBREVIATION}} : SetModes(n, modes)
    \/ \E n \in ChainNodes, data \in ChainItems : NodeLoadAbbreviation(n, data)
    \/ /\ ~expansion.called
       /\ \E folder \in {ROOT, "f1"}, buf \in ChainBuffers : CallGetBackspaceCount(folder, buf)
    \/ /\ ~expansion.called
       /\ \E n \in ChainNodes, buf \in ChainBuffers : CallCalculateInput(n, buf)
    \/ /\ ~expansion.called
       /\ \E buf \in ChainBuffers : BuildPhrase(PHRASE, buf)
    \/ /\ ~expansion.called
       /\ \E buf \in ChainBuffers : ProcessBuffer(SCRIPT, buf)

SpecChain == Init /\ [][NextChain]_vars

(***************************************************************************)
(* Specification of the hotkeys: any sequence of configuration calls on    *)
(* two hotkeys, then one check_hotkey                                      *)
(***************************************************************************)
HotkeyData == [modifiers : HkModLists, hotKey : KeyCodes]

NextHotkey ==
    \/ \E h \in HotkeyObjs, mods \in HkModLists, hotKey \in KeyCodes : SetHotkey(h, mods, hotKey)
    \/ \E h \in HotkeyObjs, data \in HotkeyData : HotkeyLoadFromSerialized(h, data)
    \/ \E h \in HotkeyObjs, theHotkey \in HotkeyObjs : CopyHotkey(h, theHotkey)
    \/ \E h \in HotkeyObjs, regex \in WindowFilters : SetWindowTitles(h, regex)
    \/ \E h \in HotkeyObjs, activeMods \in ActiveLists, keyCode \in KeyCodes, windowTitle \in Titles :
           CheckHotkey(h, activeMods, keyCode, windowTitle)

SpecHotkey == Init /\ [][NextHotkey]_vars

(***************************************************************************)
(* Properties of the dispatcher                                            *)
(***************************************************************************)
SentinelDequeued == cpc = "terminated" \/ (cpc = "numlock" /\ cur = Sentinel)

\* the event being processed, until the service has received it
Pending ==
    IF Processing /\ cur # Sentinel /\ ~(\E i \in DOMAIN bCalls : bCalls[i].l = SERVICE)
    THEN <<cur>> ELSE <<>>

IsRealEvent(e) == e # Sentinel
RealQueue == SelectSeq(queue, IsRealEvent)

\* C1: the events reach the listeners in the order of their enqueue, each exactly
\* once: what the service has received is always a prefix of what was enqueued,
\* and until the sentinel is dequeued the enqueued events are exactly those
\* received, then the one in process, then those waiting in the queue.
C1_FifoExactlyOnce ==
    /\ IsPrefix(delivered, enqueued)
    /\ ~SentinelDequeued => enqueued = delivered \o Pending \o RealQueue

\* one event delivered, a different one in process, a third enqueued meanwhile
C1_Witness ==
    /\ ~SentinelDequeued
    /\ Len(delivered) = 1
    /\ cpc = "kp_caps"
    /\ delivered[1] # cur
    /\ Len(queue) = 1
    /\ queue[1] \in Events

C8_ShutdownDrainsQueue ==
    /\ spc \in {"put", "join", "returned"} => cancelled
    /\ (\E i \in DOMAIN queue : queue[i] = Sentinel) => spc \in {"join", "returned"}
    /\ \A i \in DOMAIN queue : queue[i] = Sentinel => i = Len(queue)
    /\ spc = "returned" => (cpc = "terminated" /\ delivered = enqueued /\ queue = <<>>)

\* shutdown() was called with two events not yet delivered, and has returned
C8_Witness == spc = "returned" /\ shutPending >= 2 /\ delivered = enqueued

\* C3: a lock key's value is its initial value flipped once per down notification,
\* whatever up notifications it got; any other modifier's value is that of its
\* last notification (down: true, up: false), its initial value if it got none.
C3_ModifierTable ==
    /\ \A m \in ToggleMods :
           modifiers[m] = (InitModifiers[m] # (nDowns[m] % 2 = 1))
    /\ \A m \in ModSet \ ToggleMods :
           modifiers[m] = CASE lastNotif[m] = "none" -> InitModifiers[m]
                            [] lastNotif[m] = "down" -> TRUE
                            [] lastNotif[m] = "up" -> FALSE

\* numlock pressed and released: switched off by the press, left off by the release
C3_Witness ==
    /\ nDowns[NUMLOCK] = 1
    /\ lastNotif[NUMLOCK] = "up"
    /\ ~modifiers[NUMLOCK]

\* callbacks made to a listener in the current broadcast
CallsTo(l) == Cardinality({i \in DOMAIN bCalls : bCalls[i].l = l})

\* registered once when the broadcast began, and neither registered nor
\* deregistered (by itself or by another thread) while it ran
Bystander(l) == Count(bStart, l) = 1 /\ l \notin bTouched

\* C4: when listeners are registered or deregistered while a broadcast is in
\* flight, every other listener that was registered when the broadcast began
\* has received the event exactly once when the broadcast ends.
C4_NoListenerSkipped ==
    cpc = "task_done" =>
        \A l \in Range(bStart) : Bystander(l) => CallsTo(l) = 1

\* the notification the spec prescribes for the modifier values read
ExpectedKind ==
    IF \E m \in Range(NON_PRINTING_MODIFIERS) : m \in DOMAIN rd /\ rd[m]
    THEN "hotkey" ELSE "keypress"

\* C9: for every dequeued event each registered listener gets exactly one
\* notification: handle_hotkey if ctrl, alt or super is active, handle_keypress
\* otherwise.
C9_OneNotificationEach ==
    cpc = "task_done" =>
        \A l \in Range(bStart) :
            Bystander(l) =>
                /\ CallsTo(l) = 1
                /\ \A i \in DOMAIN bCalls : bCalls[i].l = l => bCalls[i].kind = ExpectedKind

\* C7: the modifier values used for one event are the content of self.modifiers
\* at one single instant.
C7_ConsistentSnapshot ==
    cpc \in {"hk_bcast", "kp_bcast", "task_done"} =>
        \E s \in seen : \A m \in DOMAIN rd : s[m] = rd[m]

\* positions in the log of the backend calls of one kind
LogIdx(ops) == {i \in DOMAIN backendLog : backendLog[i].op \in ops}

ContentOps == {"send_string", "send_key", "send_modified_key"}

\* C5: when send_string on a non-empty string has returned, every release_key
\* came before all content, every press_key came after all content, each
\* released modifier was pressed again exactly once, and neither capslock nor
\* numlock was released or pressed.
C5_ModifierIsolation ==
    (sendPc["A"] = "done" /\ sendOp["A"].name = "send_string"
                          /\ Len(sendOp["A"].arg) > 0) =>
        /\ \A r \in LogIdx({"release_key"}), c \in LogIdx(ContentOps) : r < c
        /\ \A p \in LogIdx({"press_key"}), c \in LogIdx(ContentOps) : c < p
        /\ \A m \in ModSet :
               /\ Cardinality({i \in LogIdx({"release_key"}) : backendLog[i].arg = <<m>>}) <= 1
               /\ Cardinality({i \in LogIdx({"press_key"}) : backendLog[i].arg = <<m>>})
                    = Cardinality({i \in LogIdx({"release_key"}) : backendLog[i].arg = <<m>>})
        /\ \A i \in LogIdx({"release_key", "press_key"}) :
               backendLog[i].arg \notin {<<CAPSLOCK>>, <<NUMLOCK>>}

\* C6: while a thread is inside send_string and holds the lock, every call
\* that reaches the backend is a call of that thread.
C6_NoInterleavedSend ==
    [][\A t \in Callers :
          (lock = t /\ sendOp[t].name = "send_string"
                    /\ Len(backendLog') > Len(backendLog))
              => backendLog'[Len(backendLog')].t = t]_vars

\* the text the abbreviation is looked for in, and the text looked for
Folded(str) == IF item.ignoreCase THEN LowerStr(str) ELSE str

\* the places of the buffer where the abbreviation occurs
Occurrences ==
    {i \in 1..(Len(buffer) - Len(item.abbreviation) + 1) :
        Folded(SubSeq(buffer, i, i + Len(item.abbreviation) - 1))
            = Folded(item.abbreviation)}

\* the text of the buffer after the last occurrence of the abbreviation
AfterLast ==
    LET last == CHOOSE i \in Occurrences : \A j \in Occurrences : j <= i
    IN  SubSeq(buffer, last + Len(item.abbreviation), Len(buffer))

LastOccurrence == CHOOSE i \in Occurrences : \A j \in Occurrences : j <= i

\* the text of the buffer before the last occurrence of the abbreviation
BeforeLast == SubSeq(buffer, 1, LastOccurrence - 1)

\* the occurrence as it was typed
TypedLast == SubSeq(buffer, LastOccurrence, LastOccurrence + Len(item.abbreviation) - 1)

\* the rule on the text after the abbreviation
AfterRuleHolds ==
    IF item.immediate THEN Len(AfterLast) = 0
    ELSE Len(AfterLast) = 1 /\ AfterLast[1] \notin item.wordChars

\* the rule on the text before the abbreviation
BeforeRuleHolds ==
    ~(/\ Len(BeforeLast) > 0
      /\ BeforeLast[Len(BeforeLast)] \in item.wordChars
      /\ ~item.triggerInside)

\* C11: with immediate = true, _should_trigger_abbreviation returns true only
\* if the abbreviation occurs in the buffer and nothing follows its last
\* occurrence; a buffer in which characters follow it does not trigger.
C11_ImmediateTrigger ==
    (outcome.called /\ ~outcome.raised /\ item.immediate /\ outcome.value) =>
        /\ Occurrences # {}
        /\ Len(AfterLast) = 0

C11_Witness ==
    /\ outcome.called /\ outcome.value /\ item.immediate
    /\ item.abbreviation = <<"a">>
    /\ buffer = <<" ", "a">>

\* C12: when the abbreviation occurs in the buffer and the rule on the text
\* after it holds, _should_trigger_abbreviation returns false if the character
\* before the last occurrence is a word character and triggerInside is false,
\* and true in every other case.
C12_BeforeRule ==
    (outcome.called /\ ~outcome.raised /\ Occurrences # {} /\ AfterRuleHolds) =>
        (outcome.value <=> BeforeRuleHolds)

\* C13: with ignoreCase = true the abbreviation is found whatever the case of
\* the configured abbreviation and of the typed text: the matched part is the
\* last occurrence as it was typed (empty when there is none) and the decision
\* is the one the rules give for that occurrence.
C13_IgnoreCaseLocates ==
    (outcome.called /\ ~outcome.raised /\ item.ignoreCase) =>
        IF Occurrences = {}
        THEN PartitionInput(item, buffer)[2] = <<>> /\ ~outcome.value
        ELSE /\ PartitionInput(item, buffer)[2] = TypedLast
             /\ outcome.value <=> (AfterRuleHolds /\ BeforeRuleHolds)

\* the folders that hold n in a child list
Containers(n) == {f \in Folders : n \in Range(folders[f]) \cup Range(items[f])}

\* the folders above n, by the child lists
RECURSIVE FoldersAbove(_)
FoldersAbove(n) ==
    IF Containers(n) = {} THEN {}
    ELSE LET f == CHOOSE g \in Containers(n) : TRUE IN {f} \cup FoldersAbove(f)

\* the leaves beneath folder f, by the child lists
LeavesBeneath(f) == {l \in Leaves : f \in FoldersAbove(l)}

RECURSIVE SumCounts(_)
SumCounts(ns) ==
    IF ns = {} THEN 0
    ELSE LET n == CHOOSE x \in ns : TRUE IN usageCount[n] + SumCounts(ns \ {n})

\* a step that is a call of build_phrase or process_buffer on leaf l
BuiltOn(l) == BuildPhrase(l, <<>>) \/ ProcessBuffer(l, <<>>)

\* C14: one call of build_phrase or process_buffer on a leaf of the tree adds
\* exactly 1 to the usageCount of the leaf and of every folder above it up to
\* the root, and leaves the usageCount of every other node as it was.
C14_UsagePropagates ==
    [][\A l \in Leaves :
          (BuiltOn(l) /\ ROOT \in FoldersAbove(l)) =>
              \A n \in Nodes :
                  usageCount'[n] = usageCount[n]
                      + (IF n = l \/ n \in FoldersAbove(l) THEN 1 ELSE 0)]_vars

C14_Witness ==
    /\ FoldersAbove(PHRASE) = {"f1", "f2", ROOT}
    /\ usageCount[PHRASE] = 1 /\ usageCount["f1"] = 1 /\ usageCount["f2"] = 1
    /\ usageCount[ROOT] = 1 /\ usageCount[SCRIPT] = 0

\* C15: the usageCount of every folder, the root included, equals the sum of
\* the usageCounts of the leaves currently beneath it.
C15_CountIsSumOfLeaves ==
    \A f \in Folders : usageCount[f] = SumCounts(LeavesBeneath(f))

\* the settings and the buffer of the last build_phrase / process_buffer call
BuiltCfg == cfg[expansion.node]

BuiltAbbr == BuiltCfg.abbr

FoldedBuilt(str) == IF BuiltAbbr.ignoreCase THEN LowerStr(str) ELSE str

\* the places of that buffer where the abbreviation of the leaf occurs
BuiltOccurrences ==
    {i \in 1..(Len(expansion.buffer) - Len(BuiltAbbr.abbreviation) + 1) :
        FoldedBuilt(SubSeq(expansion.buffer, i, i + Len(BuiltAbbr.abbreviation) - 1))
            = FoldedBuilt(BuiltAbbr.abbreviation)}

BuiltLast == CHOOSE i \in BuiltOccurrences : \A j \in BuiltOccurrences : j <= i

\* the buffer before, at and after the last occurrence
BuiltBefore == SubSeq(expansion.buffer, 1, BuiltLast - 1)

BuiltTyped ==
    SubSeq(expansion.buffer, BuiltLast, BuiltLast + Len(BuiltAbbr.abbreviation) - 1)

BuiltAfter ==
    SubSeq(expansion.buffer, BuiltLast + Len(BuiltAbbr.abbreviation), Len(expansion.buffer))

\* the call returned and the abbreviation match had succeeded
MatchSucceeded ==
    /\ expansion.called /\ ~expansion.raised
    /\ ABBREVIATION \in BuiltCfg.modes
    /\ ShouldTriggerAbbreviation(BuiltAbbr, expansion.buffer)

\* C18: on a successful abbreviation match build_phrase and process_buffer
\* return backspaces = len(abbreviation) + len(after) when backspace is set
\* and len(after) when it is not, after being the text that follows the last
\* occurrence of the abbreviation in the buffer.
C18_BackspaceCount ==
    MatchSucceeded =>
        /\ BuiltOccurrences # {}
        /\ expansion.backspaces =
              (IF BuiltAbbr.backspace THEN Len(BuiltAbbr.abbreviation) ELSE 0)
                  + Len(BuiltAfter)

C18_Witness ==
    /\ MatchSucceeded
    /\ expansion.node = SCRIPT
    /\ ~BuiltAbbr.backspace
    /\ BuiltAbbr.abbreviation = <<"a", "a">>
    /\ expansion.buffer = <<"a", "a", " ">>
    /\ expansion.backspaces = 1

\* the replacement text: the phrase of a Phrase, nothing for a Script
Replacement == IF expansion.node = PHRASE THEN BuiltCfg.phrase ELSE <<>>

\* the buffer with its last `backspaces` characters deleted
AfterBackspacing == SubSeq(expansion.buffer, 1, Len(expansion.buffer) - expansion.backspaces)

\* C19: on a successful match with matchCase = false, deleting the last
\* `backspaces` characters of the buffer and typing the returned string gives
\* before + (the typed abbreviation when backspace is off) + replacement +
\* after when omitTrigger is false, and the same without after when it is true.
C19_BoundaryRoundTrip ==
    (MatchSucceeded /\ ~BuiltCfg.matchCase) =>
        AfterBackspacing \o expansion.string =
            BuiltBefore \o (IF BuiltAbbr.backspace THEN <<>> ELSE BuiltTyped)
                \o Replacement \o (IF BuiltCfg.omitTrigger THEN <<>> ELSE BuiltAfter)

\* the string build_phrase starts from: the phrase and, unless omitTrigger is
\* set, the text after the abbreviation
Untransformed ==
    BuiltCfg.phrase \o (IF BuiltCfg.omitTrigger THEN <<>> ELSE BuiltAfter)

\* the part of the returned string that is the phrase
PhrasePart == SubSeq(expansion.string, 1, Len(BuiltCfg.phrase))

\* the typed occurrence has upper-case and lower-case letters and is not title-case
IsMixed(str) ==
    /\ ~IsTitle(str)
    /\ \E i \in DOMAIN str : str[i] = "a"
    /\ \E i \in DOMAIN str : str[i] = "A"

\* C20: build_phrase with matchCase = true capitalises the first character of
\* the string when the typed occurrence is title-case, upper-cases the whole
\* string when it is all upper-case, lower-cases it when it is all lower-case
\* and leaves it untouched when it is mixed case; with matchCase = false the
\* string is not case-transformed.
C20_CaseMirroring ==
    (MatchSucceeded /\ expansion.node = PHRASE) =>
        /\ LowerStr(expansion.string) = LowerStr(Untransformed)
        /\ IF BuiltCfg.matchCase
           THEN /\ IsTitle(BuiltTyped) => expansion.string[1] = Upper(BuiltCfg.phrase[1])
                /\ IsUpper(BuiltTyped) => expansion.string = UpperStr(Untransformed)
                /\ IsLower(BuiltTyped) => expansion.string = LowerStr(Untransformed)
                /\ IsMixed(BuiltTyped) => PhrasePart = BuiltCfg.phrase
           ELSE PhrasePart = BuiltCfg.phrase

(***************************************************************************)
(* Properties of the hotkeys                                               *)
(***************************************************************************)
CheckedHotkey == hotkeys[hkResult.obj]

\* C16: for a hotkey whose modifiers were set by set_hotkey (in any order),
\* check_hotkey with a sorted list of active modifiers returns true exactly
\* when the window filter passes (no pattern passes every title), the key
\* equals the configured key and the active modifiers have the same members
\* as the given ones.
C16_CheckHotkey ==
    (hkResult.called /\ CheckedHotkey.via = "set") =>
        (hkResult.value <=>
            /\ CheckedHotkey.windowTitleRegex.isNone
                  \/ hkResult.windowTitle \in CheckedHotkey.windowTitleRegex.matches
            /\ hkResult.key = CheckedHotkey.hotKey
            /\ Range(hkResult.modifiers) = Range(CheckedHotkey.given))

\* a hotkey given <ctrl>, <alt> in that order, with a title pattern, matches
\* the sorted active list
C16_Witness ==
    /\ hkResult.called /\ hkResult.value
    /\ CheckedHotkey.via = "set"
    /\ CheckedHotkey.given = <<CONTROL, ALT>>
    /\ hkResult.modifiers = <<ALT, CONTROL>>
    /\ ~CheckedHotkey.windowTitleRegex.isNone

IsSortedSet(s) == s = SortList(s) /\ Cardinality(Range(s)) = Len(s)

\* C17: the modifiers list of every hotkey is sorted and free of duplicates,
\* and a hotkey last written by copy_hotkey holds the modifiers of the hotkey
\* it copied.
C17_ModifiersSorted ==
    \A h \in HotkeyObjs :
        /\ IsSortedSet(hotkeys[h].modifiers)
        /\ hotkeys[h].via = "copy" => hotkeys[h].modifiers = hotkeys[h].given

\* C22: the abbreviation match check never raises: for every buffer and every
\* setting of the abbreviation, one never set and the empty one included,
\* _should_trigger_abbreviation returns a boolean, false when there is no
\* match.
C22_MatchNeverRaises ==
    outcome.called =>
        /\ ~outcome.raised
        /\ outcome.value \in BOOLEAN
        /\ (item.isNone \/ Occurrences = {}) => ~outcome.value

\* a step in which one listener gets its handle_mouseclick callback
MouseClickDelivered == mIdx >= 0 /\ mIdx < Len(listeners) /\ mIdx' = mIdx + 1

\* C24: every listener broadcast is made by the consumer thread, so no
\* handle_mouseclick callback is delivered while the consumer is in the
\* broadcast of a keypress or of a hotkey.
C24_MouseClickNotDuringBroadcast ==
    [][MouseClickDelivered => ~InBroadcast]_vars

\* C25: the listener registry is a set: it holds each listener at most once
\* (also after KeyGrabber.start() has been called more than once).
C25_RegistryIsSet ==
    \A l \in Range(listeners) : Count(listeners, l) <= 1

\* send_string of thread A has returned
SendStringDone == sendPc["A"] = "done" /\ sendOp["A"].name = "send_string"

\* the segments of the string that was sent: the non-empty sections
SentSegments ==
    SelectSeq(KeySplit(sendOp["A"].arg), LAMBDA section : Len(section) > 0)

\* the content calls that reached the backend, in order
ContentCalls ==
    LET content == SelectSeq(backendLog, LAMBDA c : c.op \in ContentOps)
    IN  [i \in DOMAIN content |->
            [op |-> content[i].op, arg |-> content[i].arg, mods |-> content[i].mods]]

\* thread A has just handled a segment that is no modifier token
SegmentHandled ==
    /\ sendPc["A"] = "ss_reapply"
    /\ sections["A"] # <<>>
    /\ Len(Head(sections["A"])) > 0
    /\ ~IsModifierApplication(Head(sections["A"]))

\* the segments that have a modifier token directly before them
ModifiedSegments ==
    {j \in 2..Len(SentSegments) :
        /\ ~IsModifierApplication(SentSegments[j])
        /\ IsModifierApplication(SentSegments[j - 1])}

\* C26: in send_string the accumulated modifier tokens apply to exactly the
\* next segment that is no modifier token: once that segment has been sent
\* the accumulated list is empty, so that only the segments with modifier
\* tokens of their own directly before them are sent modified.
C26_ModifiersApplyOnce ==
    /\ SegmentHandled => accMods["A"] = <<>>
    /\ SendStringDone =>
          Cardinality(LogIdx({"send_modified_key"})) = Cardinality(ModifiedSegments)

\* the calls the segments are to be sent with, `pending` being the modifier
\* tokens met since the last segment that was sent
RECURSIVE ExpectedCalls(_, _)
ExpectedCalls(segs, pending) ==
    IF segs = <<>> THEN <<>>
    ELSE LET seg == Head(segs) IN
         IF IsModifierApplication(seg)
         THEN ExpectedCalls(Tail(segs), Append(pending, ButLast(seg)))
         ELSE (IF pending # <<>>
               THEN IF IsKey(seg)
                    THEN <<[op |-> "send_modified_key", arg |-> seg, mods |-> pending]>>
                    ELSE <<[op |-> "send_modified_key", arg |-> <<seg[1]>>, mods |-> pending]>>
                         \o (IF Len(seg) > 1
                             THEN <<[op |-> "send_string", arg |-> Tail(seg), mods |-> <<>>]>>
                             ELSE <<>>)
               ELSE <<[op |-> IF IsKey(seg) THEN "send_key" ELSE "send_string",
                       arg |-> seg, mods |-> <<>>]>>)
              \o ExpectedCalls(Tail(segs), <<>>)

\* C27: a literal run after modifier tokens is sent as one chorded press of
\* its first character with all the accumulated modifiers and the rest, if
\* any, as plain text; a key token after modifier tokens is sent as one
\* chorded press; a segment with no pending modifiers is sent with send_key
\* (key token) or send_string (literal).
C27_SegmentCalls ==
    SendStringDone => ContentCalls = ExpectedCalls(SentSegments, <<>>)

\* the number of key tokens in str from index i on, plus the number of the
\* characters outside them
RECURSIVE TokensAndChars(_, _)
TokensAndChars(str, i) ==
    IF i > Len(str) THEN 0
    ELSE IF \E tok \in KeyTokens : IsPrefix(tok, SubSeq(str, i, Len(str)))
         THEN 1 + TokensAndChars(str, i + 3)
         ELSE 1 + TokensAndChars(str, i + 1)

Max(x, y) == IF x >= y THEN x ELSE y

\* C29: remove_string(s) sends max(0, K + L - 1) backspaces, K being the
\* number of key tokens in s and L the number of characters outside them.
C29_BackspaceArithmetic ==
    (sendPc["A"] = "done" /\ sendOp["A"].name = "remove_string") =>
        /\ \A i \in DOMAIN backendLog : backendLog[i].op \in {"send_key"}
                                           => backendLog[i].arg = BACKSPACE_TOKEN
        /\ Cardinality(LogIdx({"send_key"}))
              = Max(0, TokensAndChars(sendOp["A"].arg, 1) - 1)

\* the modifiers a hotkey can carry
HotkeyModifiers == {CONTROL, ALT, SUPER, SHIFT}

\* C28: the modifier list passed to handle_hotkey is the active members of
\* {ctrl, alt, super}, plus shift exactly when shift is active, sorted and
\* without duplicates; it is never empty, holds at least one of ctrl, alt and
\* super and never alt-gr, capslock or numlock.
C28_HotkeyModifierList ==
    /\ cpc = "hk_bcast" =>
          /\ Range(runMods) = {m \in HotkeyModifiers : rd[m]}
          /\ IsSortedSet(runMods)
    /\ \A i \in DOMAIN bCalls :
          bCalls[i].kind = "hotkey" =>
              /\ bCalls[i].mods # <<>>
              /\ IsSortedSet(bCalls[i].mods)
              /\ Range(bCalls[i].mods) \cap Range(NON_PRINTING_MODIFIERS) # {}
              /\ Range(bCalls[i].mods) \subseteq HotkeyModifiers

\* super and shift are held: the list is <shift>, <super>
C28_Witness ==
    \E i \in DOMAIN bCalls :
        bCalls[i].kind = "hotkey" /\ bCalls[i].mods = <<SHIFT, SUPER>>

\* node n is in a child list of folder f
ChildOf(n, f) == n \in Range(folders[f]) \cup Range(items[f])

\* the node reached from n by following k parent references (None beyond the top)
RECURSIVE Up(_, _)
Up(n, k) == IF k = 0 \/ n = NoneV THEN n ELSE Up(parent[n], k - 1)

\* following the parent references from n ends, and ends at the node `top`
EndsAt(n, top) ==
    \E k \in 0..Cardinality(Nodes) : Up(n, k) = top /\ parent[top] = NoneV

\* C23: every node is in the child lists of at most one folder (and once),
\* the parent of a node is folder F exactly when the node is in F's child
\* lists, and the parent references lead from every node, without a cycle, to
\* one root that has no parent.
C23_TreeOwnership ==
    /\ \A n \in Nodes :
          /\ Cardinality({f \in Folders : ChildOf(n, f)}) <= 1
          /\ \A f \in Folders : Count(folders[f], n) + Count(items[f], n) <= 1
    /\ \A n \in Nodes, f \in Folders : parent[n] = f <=> ChildOf(n, f)
    /\ \A n \in Nodes : \E top \in Nodes : EndsAt(n, top)
    /\ \A n \in Nodes : (\E f \in Folders : ChildOf(n, f)) => EndsAt(n, ROOT)

(***************************************************************************)
(* Properties of the folder chain                                          *)
(***************************************************************************)
\* the nodes from n up to the root, n first
RECURSIVE PathUp(_)
PathUp(n) == IF parent[n] = NoneV THEN <<n>> ELSE <<n>> \o PathUp(parent[n])

\* the abbreviation of the node is a text that can occur in a buffer
Searchable(n) == ~cfg[n].abbr.isNone /\ Len(cfg[n].abbr.abbreviation) > 0

\* the abbreviation match of node n succeeds on buf
NodeMatches(n, buf) ==
    /\ ABBREVIATION \in cfg[n].modes
    /\ Searchable(n)
    /\ ShouldTriggerAbbreviation(cfg[n].abbr, buf)

\* the text of buf after the last occurrence of the abbreviation of node n
NodeAfter(n, buf) ==
    LET ab == cfg[n].abbr.abbreviation
        fold(str) == IF cfg[n].abbr.ignoreCase THEN LowerStr(str) ELSE str
        occ == {i \in 1..(Len(buf) - Len(ab) + 1) :
                   fold(SubSeq(buf, i, i + Len(ab) - 1)) = fold(ab)}
        last == CHOOSE i \in occ : \A j \in occ : j <= i
    IN  SubSeq(buf, last + Len(ab), Len(buf))

\* the nearest node of the path, if any, that satisfies Q(n): its place
Nearest(path, Q(_)) ==
    LET q == {i \in DOMAIN path : Q(path[i])}
    IN  IF q = {} THEN 0 ELSE CHOOSE i \in q : \A j \in q : i <= j

\* len(abbreviation) + len(after) of the nearest node from `folder` up that
\* has the abbreviation mode enabled, backspace set and a match on buf; else 0
AncestorBackspaces(folder, buf) ==
    LET path == PathUp(folder)
        Q(n) == cfg[n].abbr.backspace /\ NodeMatches(n, buf)
        i == Nearest(path, Q)
    IN  IF i = 0 THEN 0
        ELSE Len(cfg[path[i]].abbr.abbreviation) + Len(NodeAfter(path[i], buf))

\* the last call was build_phrase / process_buffer on a leaf that has a
\* parent and no match of its own
BuiltWithoutMatch ==
    /\ expansion.called
    /\ expansion.op \in {"build_phrase", "process_buffer"}
    /\ parent[expansion.node] # NoneV
    /\ ~NodeMatches(expansion.node, expansion.buffer)

\* C21: get_backspace_count returns len(abbreviation) + len(after) of the
\* nearest node from the folder up to the root whose abbreviation mode is
\* enabled, whose backspace is set and whose match succeeds, and 0 when there
\* is none; an item built without a match of its own gets this value of its
\* parent as its backspaces.
C21_AncestorBackspaceCount ==
    /\ (expansion.called /\ expansion.op = "get_backspace_count") =>
          /\ ~expansion.raised
          /\ expansion.backspaces = AncestorBackspaces(expansion.node, expansion.buffer)
    /\ BuiltWithoutMatch =>
          /\ ~expansion.raised
          /\ expansion.backspaces =
                AncestorBackspaces(parent[expansion.node], expansion.buffer)

\* the keystrokes of the nearest node from n up to the root whose match
\* succeeds on buf: len(abbreviation), + 1 unless it is immediate; else 0
ConsumedKeystrokes(n, buf) ==
    LET path == PathUp(n)
        Q(m) == NodeMatches(m, buf)
        i == Nearest(path, Q)
    IN  IF i = 0 THEN 0
        ELSE Len(cfg[path[i]].abbr.abbreviation)
                 + (IF cfg[path[i]].abbr.immediate THEN 0 ELSE 1)

\* C30: calculate_input on a node whose abbreviation mode is enabled and
\* whose match succeeds returns len(abbreviation) when the node is immediate
\* and len(abbreviation) + 1 when it is not; a node that does not match
\* returns the value of its parent, and a root that does not match returns 0.
C30_KeystrokesConsumed ==
    (expansion.called /\ expansion.op = "calculate_input") =>
        /\ ~expansion.raised
        /\ expansion.keystrokes = ConsumedKeystrokes(expansion.node, expansion.buffer)

(***************************************************************************)
(* Properties of the partition of the buffer                               *)
(***************************************************************************)
\* the parts _partition_input gave for the buffer that was checked
CheckedParts == PartitionInput(item, buffer)

\* C34: whenever the abbreviation is found, the parts _partition_input
\* returns are parts of the original buffer: before + matched + after is the
\* buffer character for character, with ignoreCase set or not.
C34_PartsOfOriginalBuffer ==
    (outcome.called /\ ~outcome.raised /\ CheckedParts[2] # <<>>) =>
        CheckedParts[1] \o CheckedParts[2] \o CheckedParts[3] = buffer

(***************************************************************************)
(* Properties of the dispatcher with failing callbacks                     *)
(***************************************************************************)
\* the consumer thread has left run()
ConsumerEnded == cpc \in {"terminated", "crashed"}

\* C33: a listener callback that raises does not stop the dispatcher: the
\* consumer loop ends only by dequeuing the sentinel.
C33_FailureDoesNotStop ==
    ConsumerEnded => cur = Sentinel

\* the event the consumer holds is the n-th one handed to handle_keypress
CurrentEvent == Len(enqueued) - Len(queue)

\* the modifier list run() builds from the content mods of self.modifiers
ModifiersOn(mods) ==
    SortList(SelectSeq(NON_PRINTING_MODIFIERS \o <<SHIFT>>, LAMBDA m : mods[m]))

\* C32: a keypress is classified according to the modifier state in effect when
\* handle_keypress enqueued it: with no modifier notification applied since the
\* consumer dequeued the event, the notifications applied while it waited in
\* the queue change neither hotkey versus keypress nor the modifier list nor
\* whether the key is shifted.
C32_ClassifiedAsEnqueued ==
    (cpc \in {"hk_bcast", "kp_bcast"} /\ nNotif = deqNotif) =>
        LET atEnqueue == enqMods[CurrentEvent] IN
        /\ (cpc = "hk_bcast") =
               (\E m \in Range(NON_PRINTING_MODIFIERS) : atEnqueue[m])
        /\ cpc = "hk_bcast" => runMods = ModifiersOn(atEnqueue)
        /\ cpc = "kp_bcast" => shifted = (atEnqueue[CAPSLOCK] # atEnqueue[SHIFT])

\* no thread is inside an outbound operation
NoOutboundInProgress == \A t \in Callers : sendPc[t] \in {"idle", "done", "raised"}

\* C35: send_string and paste_string release the lock on every path on which
\* they acquired it, a failing backend call included: the lock is free whenever
\* no outbound operation is in progress.
C35_LockFreeWhenIdle == NoOutboundInProgress => lock = NoneV

\* the string before the call to parsePositionTokens
GivenString == cursorExp.given

\* str without the cursor markers
WithoutMarker(str) == SelectSeq(str, LAMBDA c : <<c>> # CURSOR_POSITION_TOKEN)

\* the part of str behind its first cursor marker
AfterMarker(str) ==
    LET first == CHOOSE i \in DOMAIN str :
                     /\ <<str[i]>> = CURSOR_POSITION_TOKEN
                     /\ \A j \in 1..(i - 1) : <<str[j]>> # CURSOR_POSITION_TOKEN
    IN  WithoutMarker(SubSeq(str, first + 1, Len(str)))

\* a section that is output as a key or applied as a modifier, not as text
IsKeyToken(section) ==
    /\ Len(section) > 0
    /\ (IsKey(section) \/ IsModifierApplication(section))

\* the characters of the sections that are not key tokens
RECURSIVE TextLength(_)
TextLength(secs) ==
    IF secs = <<>> THEN 0
    ELSE (IF IsKeyToken(Head(secs)) THEN 0 ELSE Len(Head(secs))) + TextLength(Tail(secs))

\* a navigation key token occurs in str
NavigationKeyIn(str) ==
    \E i \in DOMAIN NAVIGATION_KEYS : Contains(LowerStr(str), NAVIGATION_KEYS[i])

\* C31: parsePositionTokens on an expansion whose string contains the cursor
\* marker removes the marker, sets lefts to 0 if a navigation key token occurs
\* anywhere in the string and otherwise to the number of characters behind the
\* marker that are not part of a key token; an expansion without the marker
\* keeps its string and lefts = 0.
C31_CursorPositioning ==
    cursorExp.parsed =>
        IF Contains(GivenString, CURSOR_POSITION_TOKEN)
        THEN /\ ~cursorExp.raised
             /\ cursorExp.string = WithoutMarker(GivenString)
             /\ cursorExp.lefts = IF NavigationKeyIn(GivenString) THEN 0
                                  ELSE TextLength(KeySplit(AfterMarker(GivenString)))
        ELSE cursorExp.string = GivenString /\ cursorExp.lefts = 0

====
